---- MODULE Spec2Model ----
(***************************************************************************)
(* The AST cache and request orchestrator of the forge language server    *)
(* (src/src/lsp.rs): the per-URI AST cache behind a tokio RwLock, the      *)
(* didOpen / didSave / didChange notification handlers and the position    *)
(* queries (definition, declaration, references, rename), each handler     *)
(* split at its await points; and the library functions behind them        *)
(* (src/src/references.rs, src/src/rename.rs, apply_workspace_edit),       *)
(* called on their own in EditSpec, RefsSpec and PlanSpec, and a whole     *)
(* request with one failure in RequestSpec.                                *)
(***************************************************************************)
EXTENDS Integers, Sequences, FiniteSets, TLC

\* ------------------------------------------------------------------ bounds
\* Handler tasks the runtime may have in flight at once.
NumTasks == 2
\* Messages the editor sends in one run.
MaxEvents == 3
\* didChange notifications one document receives in one run.
MaxChanges == 1

Tasks == 1..NumTasks
NoTask == 0

\* ------------------------------------------------------------ the inputs
FileUris == {"file:///a.sol", "file:///b.sol"}
\* A URI that Url::to_file_path rejects.
BadUri == "untitled:1"
Uris == FileUris \cup {BadUri}

ToFilePathOk(u) == u \in FileUris

\* The notifications whose handlers only log a message.
LogOnly ==
    {"didClose", "didChangeConfiguration", "didChangeWorkspaceFolders",
     "didChangeWatchedFiles"}
Notifications == {"didOpen", "didSave", "didChange"} \cup LogOnly
Queries == {"definition", "declaration", "references", "rename"}
Kinds == Notifications \cup Queries

\* What the compiler driver may answer to a lint or build request.
LintOutcomes == {[ok |-> FALSE, diags |-> <<>>], [ok |-> TRUE, diags |-> <<"lint1">>]}
BuildOutcomes == {[ok |-> FALSE, diags |-> <<>>], [ok |-> TRUE, diags |-> <<"build1">>]}
NoOutcome == [ok |-> FALSE, diags |-> <<>>]

\* An AST as the driver returns it: the document it was compiled for and the
\* number of didChange events the document had received when the call began.
AstOf(u, e) == [uri |-> u, epoch |-> e]
NoAst == [uri |-> "", epoch |-> -1]

\* ------------------------------------------------------- HashMap helpers
Insert(m, k, v) == [x \in (DOMAIN m) \cup {k} |-> IF x = k THEN v ELSE m[x]]
Remove(m, k) == [x \in (DOMAIN m) \ {k} |-> m[x]]

\* ------------------------------------------- the project and its AST
\* The source files on disk, as bytes:
\*   /a.sol: "uint x;\nx = 1;\n"      /b.sol: "x + y;\n"      /c.sol: "s.x;\n"
Paths == {"/a.sol", "/b.sol", "/c.sol"}
Disk ==
    [p \in Paths |->
        IF p = "/a.sol"
        THEN <<"u", "i", "n", "t", " ", "x", ";", "\n", "x", " ", "=", " ", "1", ";", "\n">>
        ELSE IF p = "/b.sol" THEN <<"x", " ", "+", " ", "y", ";", "\n">>
        ELSE <<"s", ".", "x", ";", "\n">>]

\* str::lines: the text between newlines, without the newline and without a
\* carriage return before it; a final newline starts no further line.
RECURSIVE SplitLines(_, _)
SplitLines(bytes, cur) ==
    IF bytes = <<>> THEN (IF cur = <<>> THEN <<>> ELSE <<cur>>)
    ELSE IF Head(bytes) = "\n"
         THEN <<IF cur # <<>> /\ cur[Len(cur)] = "\r" THEN SubSeq(cur, 1, Len(cur) - 1) ELSE cur>>
              \o SplitLines(Tail(bytes), <<>>)
         ELSE SplitLines(Tail(bytes), Append(cur, Head(bytes)))

Lines(content) == SplitLines(content, <<>>)

\* Url::to_file_path and Url::from_file_path on the file URIs.
PathOf(u) ==
    IF u = "file:///a.sol" THEN "/a.sol" ELSE IF u = "file:///b.sol" THEN "/b.sol" ELSE "/c.sol"
UriOf(p) ==
    IF p = "/a.sol" THEN "file:///a.sol" ELSE IF p = "/b.sol" THEN "file:///b.sol"
    ELSE "file:///c.sol"

NoId == 0
NoSpan == <<>>
\* An empty changes map of a WorkspaceEdit.
NoChanges == <<>>

\* The decimal digits, and a number below 100 as the compiler prints it.
DigitChars == <<"0", "1", "2", "3", "4", "5", "6", "7", "8", "9">>
FormatNat(n) ==
    IF n < 10 THEN <<DigitChars[n + 1]>>
    ELSE <<DigitChars[(n \div 10) + 1], DigitChars[(n % 10) + 1]>>

\* A span in the compiler's text form "offset:length:fileId".
Span(o, l, f) == FormatNat(o) \o <<":">> \o FormatNat(l) \o <<":">> \o FormatNat(f)

\* str::split: the parts of a text between the separators.
RECURSIVE SplitOn(_, _, _)
SplitOn(text, sep, cur) ==
    IF text = <<>> THEN <<cur>>
    ELSE IF Head(text) = sep THEN <<cur>> \o SplitOn(Tail(text), sep, <<>>)
         ELSE SplitOn(Tail(text), sep, Append(cur, Head(text)))

\* What str::parse::<usize> gives for a text that is no number.
NotANumber == -1

\* The value of a text of decimal digits.
RECURSIVE DigitsValue(_, _)
DigitsValue(text, acc) ==
    IF text = <<>> THEN acc
    ELSE DigitsValue(Tail(text),
                     10 * acc + (CHOOSE d \in 0..9 : DigitChars[d + 1] = Head(text)))

\* str::parse::<usize>: the number a text of digits stands for, none for any
\* other text.
ParseUsize(text) ==
    IF text = <<>> \/ \E i \in 1..Len(text) : \A d \in 1..10 : DigitChars[d] # text[i]
    THEN NotANumber
    ELSE DigitsValue(text, 0)

\* build_infos[0].source_id_to_path of the driver's output; the file of id 3
\* is no longer on disk.
SourceIdToPath ==
    [f \in {<<"0">>, <<"1">>, <<"2">>, <<"3">>} |->
        IF f = <<"0">> THEN "/a.sol" ELSE IF f = <<"1">> THEN "/b.sol"
        ELSE IF f = <<"2">> THEN "/c.sol" ELSE "/gone.sol"]

\* The node table cache_ids extracts from the driver's output: x is declared
\* in /a.sol (node 1), used there (node 2), in /b.sol (node 3) and in /c.sol
\* (node 5, the member access s.x, whose span holds the receiver as well);
\* y (node 4) has no declaration in the project.
NodeTable ==
    [p \in Paths |->
        IF p = "/a.sol"
        THEN [i \in {1, 2} |->
                IF i = 1
                THEN [src |-> Span(0, 6, 0), nameLocation |-> Span(5, 1, 0),
                      referencedDeclaration |-> NoId]
                ELSE [src |-> Span(8, 1, 0), nameLocation |-> NoSpan,
                      referencedDeclaration |-> 1]]
        ELSE IF p = "/b.sol"
        THEN [i \in {3, 4} |->
                IF i = 3
                THEN [src |-> Span(0, 1, 1), nameLocation |-> NoSpan,
                      referencedDeclaration |-> 1]
                ELSE [src |-> Span(4, 1, 1), nameLocation |-> NoSpan,
                      referencedDeclaration |-> NoId]]
        ELSE [i \in {5} |->
                [src |-> Span(0, 3, 2), nameLocation |-> NoSpan,
                 referencedDeclaration |-> 1]]]

\* cache_ids: the node table and the request-path index of an AST.
CacheIds(ast) == [nodes |-> NodeTable, pathToAbs |-> [p \in Paths |-> p]]

\* --------------------------------------------------- span arithmetic
Pos(l, c) == [line |-> l, character |-> c]
NoPos == [line |-> -1, character |-> -1]
Loc(u, s, e) == [uri |-> u, range |-> [start |-> s, end |-> e]]
NoLocation == Loc("", NoPos, NoPos)

\* The byte offset at which line i (from 0) starts.
RECURSIVE LineStart(_, _)
LineStart(lines, i) ==
    IF i = 0 THEN 0 ELSE LineStart(lines, i - 1) + Len(lines[i]) + 1

\* pos_to_bytes: len(line_i) + 1 summed over the lines before, plus the character.
PosToBytes(content, pos) == LineStart(Lines(content), pos.line) + pos.character

\* bytes_to_pos: the walk over the bytes before the offset, a newline starting
\* the next line; none past the end of the content.
BytesToPos(content, off) ==
    IF off > Len(content) THEN NoPos
    ELSE LET breaks == {k \in 1..off : content[k] = "\n"}
             last == IF breaks = {} THEN 0 ELSE CHOOSE k \in breaks : \A j \in breaks : j <= k
         IN Pos(Cardinality(breaks), off - last)

\* ------------------------------------------------------ reference graph
NodeIds(nodes) == UNION {DOMAIN nodes[p] : p \in DOMAIN nodes}
NodeOf(nodes, id) == nodes[CHOOSE p \in DOMAIN nodes : id \in DOMAIN nodes[p]][id]

\* A reference graph with the entries of the declarations only.
AllReferencesOneWay(nodes) ==
    LET uses == {i \in NodeIds(nodes) : NodeOf(nodes, i).referencedDeclaration # NoId}
    IN [k \in {NodeOf(nodes, i).referencedDeclaration : i \in uses} |->
          {i \in uses : NodeOf(nodes, i).referencedDeclaration = k}]

\* all_references: for every node with a referencedDeclaration, an entry in
\* both directions.
AllReferences(nodes) ==
    LET uses == {i \in NodeIds(nodes) : NodeOf(nodes, i).referencedDeclaration # NoId}
        keys == uses \cup {NodeOf(nodes, i).referencedDeclaration : i \in uses}
    IN [k \in keys |->
          {i \in uses : NodeOf(nodes, i).referencedDeclaration = k}
          \cup (IF k \in uses THEN {NodeOf(nodes, k).referencedDeclaration} ELSE {})]

\* The parts of a node's src text between its colons.
SrcParts(node) == SplitOn(node.src, ":", <<>>)

\* A byte_to_id that takes the byte at the end of a span as inside it.
ByteToIdEndInclusive(nodes, absPath, bytePosition) ==
    IF absPath \notin DOMAIN nodes THEN {}
    ELSE LET fileNodes == nodes[absPath]
             read == {i \in DOMAIN fileNodes : Len(SrcParts(fileNodes[i])) = 3}
             start(i) == ParseUsize(SrcParts(fileNodes[i])[1])
             length(i) == ParseUsize(SrcParts(fileNodes[i])[2])
             inside == {i \in read : start(i) <= bytePosition /\ bytePosition <= start(i) + length(i)}
         IN IF \E i \in read : start(i) = NotANumber \/ length(i) = NotANumber THEN {}
            ELSE {i \in inside : \A j \in inside : length(i) <= length(j)}

\* byte_to_id: a src with other than three parts is passed over; a start or
\* length that is no number ends the search with None; else the nodes whose
\* span contains the byte and is the shortest, of which the one the HashMap
\* iteration meets first is kept.
ByteToId(nodes, absPath, bytePosition) ==
    IF absPath \notin DOMAIN nodes THEN {}
    ELSE LET fileNodes == nodes[absPath]
             read == {i \in DOMAIN fileNodes : Len(SrcParts(fileNodes[i])) = 3}
             start(i) == ParseUsize(SrcParts(fileNodes[i])[1])
             length(i) == ParseUsize(SrcParts(fileNodes[i])[2])
             inside == {i \in read : start(i) <= bytePosition /\ bytePosition < start(i) + length(i)}
         IN IF \E i \in read : start(i) = NotANumber \/ length(i) = NotANumber THEN {}
            ELSE {i \in inside : \A j \in inside : length(i) <= length(j)}

\* An id_to_location that reads the src span of every node.
IdToLocationOfSrc(nodes, idToPath, id) ==
    IF id \notin NodeIds(nodes) THEN NoLocation
    ELSE LET parts == SplitOn(NodeOf(nodes, id).src, ":", <<>>)
         IN IF Len(parts) # 3 THEN NoLocation
            ELSE LET byteOffset == ParseUsize(parts[1])
                     length == ParseUsize(parts[2])
                 IN IF byteOffset = NotANumber \/ length = NotANumber
                       \/ parts[3] \notin DOMAIN idToPath
                    THEN NoLocation
                    ELSE IF idToPath[parts[3]] \notin DOMAIN Disk THEN NoLocation
                    ELSE LET path == idToPath[parts[3]]
                             startPos == BytesToPos(Disk[path], byteOffset)
                             endPos == BytesToPos(Disk[path], byteOffset + length)
                         IN IF startPos = NoPos \/ endPos = NoPos THEN NoLocation
                            ELSE Loc(UriOf(path), startPos, endPos)

\* id_to_location: the nameLocation span when the node has one, else its src
\* span, in the file its fileId names, as a range of positions.
IdToLocation(nodes, idToPath, id) ==
    IF id \notin NodeIds(nodes) THEN NoLocation
    ELSE LET node == NodeOf(nodes, id)
             parts == SplitOn(IF node.nameLocation # NoSpan THEN node.nameLocation ELSE node.src,
                              ":", <<>>)
         IN IF Len(parts) # 3 THEN NoLocation
            ELSE LET byteOffset == ParseUsize(parts[1])
                     length == ParseUsize(parts[2])
                 IN IF byteOffset = NotANumber \/ length = NotANumber
                       \/ parts[3] \notin DOMAIN idToPath
                    THEN NoLocation
                    ELSE IF idToPath[parts[3]] \notin DOMAIN Disk THEN NoLocation
                    ELSE LET path == idToPath[parts[3]]
                             startPos == BytesToPos(Disk[path], byteOffset)
                             endPos == BytesToPos(Disk[path], byteOffset + length)
                         IN IF startPos = NoPos \/ endPos = NoPos THEN NoLocation
                            ELSE Loc(UriOf(path), startPos, endPos)

\* A conversion that gives up at the first id that does not resolve.
RECURSIVE LocationsUntilFailure(_, _, _)
LocationsUntilFailure(nodes, idToPath, ids) ==
    IF ids = <<>> THEN <<>>
    ELSE LET l == IdToLocation(nodes, idToPath, Head(ids))
         IN IF l = NoLocation THEN <<>>
            ELSE <<l>> \o LocationsUntilFailure(nodes, idToPath, Tail(ids))

\* The locations of the ids in the order given, those that resolve.
RECURSIVE Locations(_, _, _)
Locations(nodes, idToPath, ids) ==
    IF ids = <<>> THEN <<>>
    ELSE LET l == IdToLocation(nodes, idToPath, Head(ids))
             rest == Locations(nodes, idToPath, Tail(ids))
         IN IF l = NoLocation THEN rest ELSE <<l>> \o rest

\* A goto_references that removes no duplicate.
UniqueKeepAll(locs, seen) == locs

\* The duplicate removal of goto_references: the first of equal locations stays.
RECURSIVE Unique(_, _)
Unique(locs, seen) ==
    IF locs = <<>> THEN <<>>
    ELSE IF Head(locs) \in seen THEN Unique(Tail(locs), seen)
         ELSE <<Head(locs)>> \o Unique(Tail(locs), seen \cup {Head(locs)})

\* The ids of a set in the order a HashSet iteration (order) yields them.
InOrder(order, ids) == SelectSeq(order, LAMBDA i : i \in ids)

\* goto_references from the node found at the cursor: the target is the
\* node's referencedDeclaration or the node itself.
ReferencesOf(nodes, idToPath, absPath, nodeId, order) ==
    LET allRefs == AllReferences(nodes)
        targetNodeId ==
            IF nodes[absPath][nodeId].referencedDeclaration # NoId
            THEN nodes[absPath][nodeId].referencedDeclaration ELSE nodeId
    IN IF targetNodeId \notin DOMAIN allRefs THEN <<>>
       ELSE Unique(Locations(nodes, idToPath,
                             InOrder(order, allRefs[targetNodeId] \cup {targetNodeId})), {})

\* goto_references; found is what byte_to_id returned (NoId for none).
GotoReferences(ast, fileUri, position, found, order) ==
    LET ids == CacheIds(ast)
        path == PathOf(fileUri)
    IN IF path \notin DOMAIN ids.pathToAbs \/ found = NoId THEN <<>>
       ELSE ReferencesOf(ids.nodes, SourceIdToPath, ids.pathToAbs[path], found, order)

\* goto_declaration: the declaration of the node at the cursor, one hop along
\* referencedDeclaration, or the node itself when it is a declaration.
GotoDeclaration(ast, fileUri, position, found) ==
    LET ids == CacheIds(ast)
        path == PathOf(fileUri)
    IN IF path \notin DOMAIN ids.pathToAbs \/ found = NoId THEN NoLocation
       ELSE LET node == ids.nodes[ids.pathToAbs[path]][found]
            IN IdToLocation(ids.nodes, SourceIdToPath,
                            IF node.referencedDeclaration # NoId
                            THEN node.referencedDeclaration ELSE found)

\* ------------------------------------------------------- rename planner
Digits == {"0", "1", "2", "3", "4", "5", "6", "7", "8", "9"}
Letters ==
    {"a", "b", "c", "d", "e", "f", "g", "h", "i", "j", "k", "l", "m",
     "n", "o", "p", "q", "r", "s", "t", "u", "v", "w", "x", "y", "z",
     "A", "B", "C", "D", "E", "F", "G", "H", "I", "J", "K", "L", "M",
     "N", "O", "P", "Q", "R", "S", "T", "U", "V", "W", "X", "Y", "Z"}
\* is_ascii_alphanumeric or an underscore.
IsWordByte(b) == b \in Letters \cup Digits \cup {"_"}

RECURSIVE WordStart(_, _)
WordStart(line, start) ==
    IF start > 0 /\ IsWordByte(line[start]) THEN WordStart(line, start - 1) ELSE start

RECURSIVE WordEnd(_, _)
WordEnd(line, end) ==
    IF end < Len(line) /\ IsWordByte(line[end + 1]) THEN WordEnd(line, end + 1) ELSE end

NoIdentifier == <<>>

\* get_identifier_at_position: the word around the cursor, none when the
\* position is outside the text, no word is there, or it starts with a digit.
GetIdentifierAtPosition(source, position) ==
    LET lines == Lines(source) IN
    IF position.line >= Len(lines) THEN NoIdentifier
    ELSE LET line == lines[position.line + 1] IN
         IF position.character > Len(line) THEN NoIdentifier
         ELSE LET start == WordStart(line, position.character)
                  end == WordEnd(line, position.character)
              IN IF start = end \/ line[start + 1] \in Digits THEN NoIdentifier
                 ELSE SubSeq(line, start + 1, end)

\* str::find: the offsets at which pat occurs in text.
Occurrences(text, pat) ==
    {k \in 0..(Len(text) - Len(pat)) : SubSeq(text, k + 1, k + Len(pat)) = pat}

NoRange == [start |-> NoPos, end |-> NoPos]

\* A narrowing to the last occurrence of the identifier inside the range.
AdjustRangeToLastOccurrence(range, source, identifier) ==
    LET lines == Lines(source) IN
    IF range.start.line # range.end.line \/ range.start.line >= Len(lines) THEN NoRange
    ELSE LET line == lines[range.start.line + 1]
             startChar == range.start.character
             endChar == range.end.character
         IN IF startChar > endChar \/ endChar > Len(line) THEN NoRange
            ELSE LET occ == Occurrences(SubSeq(line, startChar + 1, endChar), identifier) IN
                 IF occ = {} THEN NoRange
                 ELSE LET pos == CHOOSE k \in occ : \A j \in occ : k >= j
                      IN [start |-> Pos(range.start.line, startChar + pos),
                          end |-> Pos(range.end.line, startChar + pos + Len(identifier))]

\* adjust_range_for_identifier: on a single line, the first occurrence of the
\* identifier inside the range; none otherwise.
AdjustRangeForIdentifier(range, source, identifier) ==
    LET lines == Lines(source) IN
    IF range.start.line # range.end.line \/ range.start.line >= Len(lines) THEN NoRange
    ELSE LET line == lines[range.start.line + 1]
             startChar == range.start.character
             endChar == range.end.character
         IN IF startChar > endChar \/ endChar > Len(line) THEN NoRange
            ELSE LET occ == Occurrences(SubSeq(line, startChar + 1, endChar), identifier) IN
                 IF occ = {} THEN NoRange
                 ELSE LET pos == CHOOSE k \in occ : \A j \in occ : k <= j
                      IN IF startChar + pos + Len(identifier) <= endChar
                         THEN [start |-> Pos(range.start.line, startChar + pos),
                               end |-> Pos(range.end.line, startChar + pos + Len(identifier))]
                         ELSE NoRange

\* An edit that narrows the range and writes the old name back.
EditOfOldName(location, identifier, newName) ==
    LET adjusted == AdjustRangeForIdentifier(location.range, Disk[PathOf(location.uri)], identifier)
    IN [range |-> IF adjusted # NoRange THEN adjusted ELSE location.range,
        newText |-> identifier]

\* The text edit rename_symbol makes of one location.
EditOf(location, identifier, newName) ==
    LET adjusted == AdjustRangeForIdentifier(location.range, Disk[PathOf(location.uri)], identifier)
    IN [range |-> IF adjusted # NoRange THEN adjusted ELSE location.range,
        newText |-> newName]

\* The changes map of rename_symbol: per URI the edits of its locations, in
\* the order of the locations; a location in an unreadable file is skipped.
RECURSIVE GroupEdits(_, _, _, _)
GroupEdits(locations, identifier, newName, unreadable) ==
    IF locations = <<>> THEN NoChanges
    ELSE LET l == Head(locations)
             rest == GroupEdits(Tail(locations), identifier, newName, unreadable)
         IN IF PathOf(l.uri) \in unreadable THEN rest
            ELSE Insert(rest, l.uri,
                        <<EditOf(l, identifier, newName)>>
                        \o (IF l.uri \in DOMAIN rest THEN rest[l.uri] ELSE <<>>))

NoPlan == [some |-> FALSE, changes |-> NoChanges]

\* A rename_symbol that adds an edit for the cursor position to the edits
\* of the locations.
RenameSymbolInjectingCursor(ast, fileUri, position, source, newName, found, order, unreadable) ==
    LET identifier == GetIdentifierAtPosition(source, position)
        locations == GotoReferences(ast, fileUri, position, found, order)
    IN IF identifier = NoIdentifier \/ locations = <<>> THEN NoPlan
       ELSE LET changes == GroupEdits(locations, identifier, newName, unreadable)
                atCursor == [range |-> [start |-> position,
                                        end |-> Pos(position.line,
                                                    position.character + Len(identifier))],
                             newText |-> newName]
            IN [some |-> TRUE,
                changes |-> Insert(changes, fileUri,
                                   <<atCursor>> \o (IF fileUri \in DOMAIN changes
                                                    THEN changes[fileUri] ELSE <<>>))]

\* A rename_symbol that gives no plan when the file of a location cannot be
\* read.
RenameSymbolAllOrNothing(ast, fileUri, position, source, newName, found, order, unreadable) ==
    LET identifier == GetIdentifierAtPosition(source, position)
        locations == GotoReferences(ast, fileUri, position, found, order)
    IN IF identifier = NoIdentifier \/ locations = <<>> THEN NoPlan
       ELSE IF \E i \in DOMAIN locations : PathOf(locations[i].uri) \in unreadable THEN NoPlan
       ELSE [some |-> TRUE, changes |-> GroupEdits(locations, identifier, newName, unreadable)]

\* rename_symbol: no plan without an identifier at the cursor or without
\* references; else one edit per reference location.
RenameSymbol(ast, fileUri, position, source, newName, found, order, unreadable) ==
    LET identifier == GetIdentifierAtPosition(source, position)
        locations == GotoReferences(ast, fileUri, position, found, order)
    IN IF identifier = NoIdentifier \/ locations = <<>> THEN NoPlan
       ELSE [some |-> TRUE, changes |-> GroupEdits(locations, identifier, newName, unreadable)]

\* ------------------------------------------------- server-side edits
ErrOffset == -1

\* A byte_offset that also refuses the offset of the end of the content.
ByteOffsetBeforeEnd(content, position) ==
    LET lines == Lines(content) IN
    IF position.line >= Len(lines) THEN ErrOffset
    ELSE LET offset == LineStart(lines, position.line) + position.character
         IN IF offset >= Len(content) THEN ErrOffset ELSE offset

\* byte_offset: the lines before the position, each with its newline, plus
\* the character; an error when the line is not there or the offset lies
\* past the content.
ByteOffset(content, position) ==
    LET lines == Lines(content) IN
    IF position.line >= Len(lines) THEN ErrOffset
    ELSE LET offset == LineStart(lines, position.line) + position.character
         IN IF offset > Len(content) THEN ErrOffset ELSE offset

\* Position's ordering: by line, then by character.
PosLess(a, b) == a.line < b.line \/ (a.line = b.line /\ a.character < b.character)

\* sort_by start descending, equal starts keeping their order.
RECURSIVE InsertDescending(_, _)
InsertDescending(e, sorted) ==
    IF sorted = <<>> THEN <<e>>
    ELSE IF PosLess(e.range.start, Head(sorted).range.start)
         THEN <<Head(sorted)>> \o InsertDescending(e, Tail(sorted))
         ELSE <<e>> \o sorted

RECURSIVE SortEdits(_)
SortEdits(edits) ==
    IF edits = <<>> THEN <<>> ELSE InsertDescending(Head(edits), SortEdits(Tail(edits)))

\* The edits of one file applied in the order given, each range converted
\* against the content as the edits before it left it.
RECURSIVE ApplyEdits(_, _)
ApplyEdits(content, edits) ==
    IF edits = <<>> THEN [ok |-> TRUE, content |-> content]
    ELSE LET startByte == ByteOffset(content, Head(edits).range.start)
             endByte == ByteOffset(content, Head(edits).range.end)
         IN IF startByte = ErrOffset \/ endByte = ErrOffset \/ startByte > endByte
            THEN [ok |-> FALSE, content |-> content]
            ELSE ApplyEdits(SubSeq(content, 1, startByte) \o Head(edits).newText
                            \o SubSeq(content, endByte + 1, Len(content)), Tail(edits))

\* apply_workspace_edit over the files in the order the HashMap yields them:
\* the first failure ends it, the files written before it stay written.
RECURSIVE ApplyWorkspaceEdit(_, _, _, _)
ApplyWorkspaceEdit(changes, order, faults, wrote) ==
    IF order = <<>> THEN [ok |-> TRUE, wrote |-> wrote]
    ELSE LET path == PathOf(Head(order)) IN
         IF path \in faults.unreadable \cup faults.unreadableOnApply
         THEN [ok |-> FALSE, wrote |-> wrote]
         ELSE LET r == ApplyEdits(Disk[path], SortEdits(changes[Head(order)])) IN
              IF ~r.ok \/ path \in faults.unwritable THEN [ok |-> FALSE, wrote |-> wrote]
              ELSE ApplyWorkspaceEdit(changes, Tail(order), faults, Insert(wrote, path, r.content))

\* The orders in which a HashMap with these keys may be iterated.
IterationOrders(keys) ==
    {o \in [1..Cardinality(keys) -> keys] : \A i, j \in DOMAIN o : i # j => o[i] # o[j]}

\* The file system faults a rename may meet: files no read succeeds on,
\* files std::fs::write fails on, and files the planner's std::fs::read gets
\* but read_to_string of apply_workspace_edit does not (removed in between,
\* or not valid UTF-8).
NoFaults == [unreadable |-> {}, unwritable |-> {}, unreadableOnApply |-> {}]
IoFaults ==
    {NoFaults,
     [unreadable |-> {"/c.sol"}, unwritable |-> {}, unreadableOnApply |-> {}],
     [unreadable |-> {}, unwritable |-> {"/c.sol"}, unreadableOnApply |-> {}],
     [unreadable |-> {}, unwritable |-> {}, unreadableOnApply |-> {"/c.sol"}]}

NewNames == {<<"z", "2">>}

\* The cursor positions the editor asks about.
Positions == {Pos(0, 0), Pos(0, 4), Pos(0, 5), Pos(0, 6)}

\* The orders in which a HashSet of node ids may be iterated.
Orders == {<<1, 2, 3, 4, 5>>, <<5, 4, 3, 2, 1>>}

\* What byte_to_id may return at a position of a document.
Found(ast, u, position) ==
    LET ids == ByteToId(CacheIds(ast).nodes, PathOf(u), PosToBytes(Disk[PathOf(u)], position))
    IN IF ids = {} THEN {NoId} ELSE ids

\* A handler's answer: None, or Some of a list of locations or of an edit.
None == [some |-> FALSE, locations |-> <<>>, changes |-> NoChanges]
SomeLocations(ls) == [some |-> TRUE, locations |-> ls, changes |-> NoChanges]
SomeEdit(ch) == [some |-> TRUE, locations |-> <<>>, changes |-> ch]

\* The last part of goto_definition and goto_declaration: the declaration's
\* location, or the cursor position itself when none is found.
DeclarationResponse(ast, u, position, found) ==
    LET l == GotoDeclaration(ast, u, position, found)
    IN SomeLocations(<<IF l # NoLocation THEN l ELSE Loc(u, position, position)>>)

\* The last part of references: the locations, or None when there are none.
ReferencesResponse(ast, u, position, found, order) ==
    LET ls == GotoReferences(ast, u, position, found, order)
    IN IF ls = <<>> THEN None ELSE SomeLocations(ls)

\* A split that hands the whole plan to the server side.
ServerChangesAll(plan, u) == plan

\* The split of rename: the changes of the request's document for the
\* client, the changes of every other document for the server.
ClientChanges(plan, u) == [f \in {x \in DOMAIN plan : x = u} |-> plan[f]]
ServerChanges(plan, u) == [f \in {x \in DOMAIN plan : x # u} |-> plan[f]]

\* A rename that answers with the client edit whatever the server side did.
RenameResponseDespiteFailure(client, applyOk) ==
    IF DOMAIN client = {} THEN None ELSE SomeEdit(client)

\* What rename returns: None when the server-side application failed or the
\* request's document has no changes, else the client edit.
RenameResponse(client, applyOk) ==
    IF ~applyOk \/ DOMAIN client = {} THEN None ELSE SomeEdit(client)

\* Everything rename does after the cache: the plan, its split, the
\* server-side application and the answer.
RenameRun(ast, u, position, newName, faults, found, order, fileOrder) ==
    LET plan == RenameSymbol(ast, u, position, Disk[PathOf(u)], newName, found, order,
                             faults.unreadable)
        client == ClientChanges(plan.changes, u)
        server == ServerChanges(plan.changes, u)
        applied == IF plan.some /\ DOMAIN server # {}
                   THEN ApplyWorkspaceEdit(server, fileOrder, faults, <<>>)
                   ELSE [ok |-> TRUE, wrote |-> <<>>]
    IN [plan |-> plan, faults |-> faults,
        client |-> IF plan.some THEN client ELSE NoChanges,
        server |-> IF plan.some THEN server ELSE NoChanges,
        wrote |-> applied.wrote,
        applyFailed |-> ~applied.ok,
        response |-> IF plan.some THEN RenameResponse(client, applied.ok) ELSE None]

\* The AST the driver returns for the project: its nodes are those of
\* NodeTable whatever the document and the time of the call.
ProjectAst == [uri |-> "", epoch |-> 0]

\* The runs of rename per request, over what byte_to_id may return and the
\* orders in which the HashSet and the HashMap may be iterated.
RenameRunsOf(u, position, newName, faults) ==
    UNION {UNION {{RenameRun(ProjectAst, u, position, newName, faults, found, order, fileOrder) :
                      fileOrder \in IterationOrders(DOMAIN ServerChanges(
                          RenameSymbol(ProjectAst, u, position, Disk[PathOf(u)], newName,
                                       found, order, faults.unreadable).changes, u))} :
                  order \in Orders} :
           found \in Found(ProjectAst, u, position)}

RenameRuns ==
    [u \in FileUris |-> [position \in Positions |-> [newName \in NewNames |-> [faults \in IoFaults |->
        RenameRunsOf(u, position, newName, faults)]]]]

\* The answers of definition, declaration and references per request.
AnswersOf(kind, u, position) ==
    UNION {{IF kind = "references"
            THEN ReferencesResponse(ProjectAst, u, position, found, order)
            ELSE DeclarationResponse(ProjectAst, u, position, found) : order \in Orders} :
           found \in Found(ProjectAst, u, position)}

Answers ==
    [kind \in Queries \ {"rename"} |-> [u \in FileUris |-> [position \in Positions |->
        AnswersOf(kind, u, position)]]]

VARIABLES
    cache,      \* ast_cache: the HashMap, a function on the URIs it holds
    readers,    \* tasks holding a read guard of the RwLock
    writer,     \* the task holding the write guard, or NoTask
    waitq,      \* tasks waiting for the RwLock, in arrival order
    task,       \* per handler task: its position and its locals
    changeCount,    \* per file URI: didChange events processed so far
    published,  \* per URI: the open/save events whose diagnostics were published, in order
    dispatched, \* messages dispatched so far
    call        \* a call of one of the library functions, outside any handler

vars == <<cache, readers, writer, waitq, task, changeCount, published, dispatched, call>>

\* No library function is being called on its own.
NoCall == [fn |-> "none"]

Idle ==
    [pc |-> "idle", kind |-> "", uri |-> "", seq |-> 0, versioned |-> FALSE,
     pending |-> {}, lint |-> NoOutcome, build |-> NoOutcome,
     astOk |-> FALSE, astEpoch |-> -1, data |-> NoAst, hit |-> FALSE,
     calls |-> <<>>, hist |-> <<>>, pubs |-> 0, sent |-> <<>>,
     position |-> NoPos, response |-> None,
     plan |-> NoPlan, faults |-> NoFaults, client |-> NoChanges, server |-> NoChanges, wrote |-> <<>>,
     applyFailed |-> FALSE]

Init ==
    /\ cache = <<>>
    /\ readers = {}
    /\ writer = NoTask
    /\ waitq = <<>>
    /\ task = [t \in Tasks |-> Idle]
    /\ changeCount = [u \in FileUris |-> 0]
    /\ published = [u \in Uris |-> <<>>]
    /\ dispatched = 0
    /\ call = NoCall

\* ----------------------------------------------------------- the RwLock
\* tokio's RwLock is fair: waiters are served in arrival order.
Enqueue(t, mode) == Append(waitq, <<t, mode>>)

CanRead(t) ==
    /\ waitq # <<>>
    /\ Head(waitq) = <<t, "r">>
    /\ writer = NoTask

CanWrite(t) ==
    /\ waitq # <<>>
    /\ Head(waitq) = <<t, "w">>
    /\ writer = NoTask
    /\ readers = {}

\* ------------------------------------------------------- the transport
\* A notification is dispatched only once the previous notification's
\* handler has completed; requests run as independent tasks.
TransportMayDispatch(kind) ==
    kind \in Notifications =>
        \A t \in Tasks : task[t].pc # "idle" => task[t].kind \notin Notifications

\* A handler's return and the transport's taking of its response are one
\* event: while a task has just returned, nothing else runs.
NoneReturning == \A x \in Tasks : task[x].pc # "done"

\* Task t stands at step p of its handler.
At(t, p) == task[t].pc = p /\ NoneReturning

\* The slot a new handler task takes.
FreeSlot(t) ==
    /\ At(t, "idle")
    /\ \A t2 \in Tasks : t2 < t => task[t2].pc # "idle"

\* ------------------------------------------------------------ did_change
\* did_change clearing the whole cache instead of the one entry.
DidChangeClear(m, u) == <<>>

\* The cache.remove of did_change.
DidChangeRemove(m, u) == Remove(m, u)

\* The count of processed didChange events, kept for the documents that can
\* be cached.
Changed(c, u) == IF u \in DOMAIN c THEN [c EXCEPT ![u] = @ + 1] ELSE c

\* did_change up to its wait for the write lock.
DidChange(t, u) ==
    /\ FreeSlot(t)
    /\ dispatched < MaxEvents
    /\ u \in FileUris => changeCount[u] < MaxChanges
    /\ TransportMayDispatch("didChange")
    /\ dispatched' = dispatched + 1
    /\ task' = [task EXCEPT ![t] = [Idle EXCEPT !.pc = "dc_wait_write",
                                                !.kind = "didChange", !.uri = u]]
    /\ waitq' = Enqueue(t, "w")
    /\ UNCHANGED <<call, cache, readers, writer, changeCount, published>>

\* The write lock is granted: the entry is removed; the guard is held across
\* the log message when an entry was there, and dropped at once otherwise.
DidChangeLocked(t) ==
    /\ At(t, "dc_wait_write")
    /\ CanWrite(t)
    /\ waitq' = Tail(waitq)
    /\ cache' = DidChangeRemove(cache, task[t].uri)
    /\ changeCount' = Changed(changeCount, task[t].uri)
    /\ IF task[t].uri \in DOMAIN cache
          THEN /\ writer' = t
               /\ task' = [task EXCEPT ![t].pc = "dc_log"]
          ELSE /\ writer' = writer
               /\ task' = [task EXCEPT ![t].pc = "done"]
    /\ UNCHANGED <<call, readers, published, dispatched>>

\* The end of did_change: the write guard is dropped.
DidChangeRelease(t) ==
    /\ At(t, "dc_log")
    /\ writer' = NoTask
    /\ task' = [task EXCEPT ![t].pc = "done"]
    /\ UNCHANGED <<call, cache, readers, waitq, changeCount, published, dispatched>>

\* did_close, did_change_configuration, did_change_workspace_folders and
\* did_change_watched_files: a log message, nothing else.
LogOnlyNotification(t, kind) ==
    /\ FreeSlot(t)
    /\ dispatched < MaxEvents
    /\ TransportMayDispatch(kind)
    /\ dispatched' = dispatched + 1
    /\ task' = [task EXCEPT ![t] = [Idle EXCEPT !.pc = "done", !.kind = kind]]
    /\ UNCHANGED <<call, cache, readers, writer, waitq, changeCount, published>>

\* ------------------------------------------------------------- on_change
\* The three driver calls tokio::join! starts, in the order it polls them.
JoinedCalls == <<"lint", "build", "ast">>

\* on_change up to the join: the URI must convert to a file path.
OnChangeStart(t, kind, u) ==
    IF ToFilePathOk(u)
    THEN [Idle EXCEPT !.pc = "oc_join", !.kind = kind, !.uri = u,
                      !.seq = dispatched + 1, !.versioned = (kind = "didOpen"),
                      !.pending = {"lint", "build", "ast"}, !.calls = JoinedCalls,
                      !.astEpoch = changeCount[u]]
    ELSE [Idle EXCEPT !.pc = "done", !.kind = kind, !.uri = u, !.seq = dispatched + 1]

\* did_open: on_change with the document's version.
DidOpen(t, u) ==
    /\ FreeSlot(t)
    /\ dispatched < MaxEvents
    /\ TransportMayDispatch("didOpen")
    /\ dispatched' = dispatched + 1
    /\ task' = [task EXCEPT ![t] = OnChangeStart(t, "didOpen", u)]
    /\ UNCHANGED <<call, cache, readers, writer, waitq, changeCount, published>>

\* did_save: the text comes with the notification or is read from disk; an
\* unreadable file ends the handler before on_change.
DidSave(t, u, hasText, readOk) ==
    /\ FreeSlot(t)
    /\ dispatched < MaxEvents
    /\ TransportMayDispatch("didSave")
    /\ dispatched' = dispatched + 1
    /\ task' = [task EXCEPT ![t] =
          IF hasText \/ readOk
          THEN OnChangeStart(t, "didSave", u)
          ELSE [Idle EXCEPT !.pc = "done", !.kind = "didSave", !.uri = u,
                            !.seq = dispatched + 1]]
    /\ UNCHANGED <<call, cache, readers, writer, waitq, changeCount, published>>

\* on_change caching only when all three calls succeeded.
ShouldCacheAllOk(lintRes, buildRes, astOk) == lintRes.ok /\ buildRes.ok /\ astOk

\* on_change caching whatever the AST call returned.
ShouldCacheAlways(lintRes, buildRes, astOk) == TRUE

\* Whether on_change caches: whenever the AST call succeeded.
ShouldCache(lintRes, buildRes, astOk) == astOk

\* The join completes: the three driver calls have returned, each with its
\* own outcome. With an AST the handler waits for the write lock, without
\* one it goes on to the diagnostics.
OnChangeJoined(t, lintRes, buildRes, astOk) ==
    /\ At(t, "oc_join")
    /\ IF ShouldCache(lintRes, buildRes, astOk)
          THEN /\ task' = [task EXCEPT ![t].pc = "oc_wait_write", ![t].pending = {},
                                       ![t].lint = lintRes, ![t].build = buildRes,
                                       ![t].astOk = astOk,
                                       ![t].data = AstOf(task[t].uri, task[t].astEpoch)]
               /\ waitq' = Enqueue(t, "w")
          ELSE /\ task' = [task EXCEPT ![t].pc = "oc_publish", ![t].pending = {},
                                       ![t].lint = lintRes, ![t].build = buildRes,
                                       ![t].astOk = astOk]
               /\ waitq' = waitq
    /\ UNCHANGED <<call, cache, readers, writer, changeCount, published, dispatched>>

\* on_change caching under the file path instead of the URI.
OnChangeInsertByPath(m, u, ast) == Insert(m, PathOf(u), ast)

\* The cache.insert of on_change.
OnChangeInsert(m, u, ast) == Insert(m, u, ast)

\* The write lock is granted and the AST cached; the guard is held across
\* the log message.
OnChangeCache(t) ==
    /\ At(t, "oc_wait_write")
    /\ CanWrite(t)
    /\ waitq' = Tail(waitq)
    /\ writer' = t
    /\ cache' = OnChangeInsert(cache, task[t].uri, task[t].data)
    /\ task' = [task EXCEPT ![t].pc = "oc_cached",
                            ![t].hist = @ \o <<"write_acquire", "store">>]
    /\ UNCHANGED <<call, readers, changeCount, published, dispatched>>

\* The end of the caching block: the write guard is dropped.
OnChangeRelease(t) ==
    /\ At(t, "oc_cached")
    /\ writer' = NoTask
    /\ task' = [task EXCEPT ![t].pc = "oc_publish", ![t].hist = Append(@, "write_release")]
    /\ UNCHANGED <<call, cache, readers, waitq, changeCount, published, dispatched>>

\* Diagnostics published only when both lint and build succeeded.
AllDiagnosticsMasked(lint, build) ==
    IF lint.ok /\ build.ok THEN lint.diags \o build.diags ELSE <<>>

\* all_diagnostics: the lint diagnostics, then the build diagnostics, each
\* only when its call succeeded.
AllDiagnostics(lint, build) ==
    (IF lint.ok THEN lint.diags ELSE <<>>) \o (IF build.ok THEN build.diags ELSE <<>>)

\* publish_diagnostics, the last step of on_change.
OnChangePublish(t) ==
    /\ At(t, "oc_publish")
    /\ published' = [published EXCEPT ![task[t].uri] = Append(@, task[t].seq)]
    /\ task' = [task EXCEPT ![t].pc = "done", ![t].pubs = @ + 1,
                            ![t].sent = AllDiagnostics(task[t].lint, task[t].build),
                            ![t].hist = Append(@, "publish")]
    /\ UNCHANGED <<call, cache, readers, writer, waitq, changeCount, dispatched>>

\* ------------------------------------------------------- position queries
\* goto_definition, goto_declaration, references and rename share their
\* first part: the URI must convert to a file path and the source file must
\* be readable, then the handler waits for the read lock.
Query(t, u, readOk) ==
    /\ FreeSlot(t)
    /\ dispatched < MaxEvents
    /\ TransportMayDispatch("query")
    /\ dispatched' = dispatched + 1
    /\ IF ToFilePathOk(u) /\ readOk
          THEN /\ task' = [task EXCEPT ![t] = [Idle EXCEPT !.pc = "q_wait_read",
                                                          !.kind = "query", !.uri = u]]
               /\ waitq' = Enqueue(t, "r")
          ELSE /\ task' = [task EXCEPT ![t] = [Idle EXCEPT !.pc = "done",
                                                          !.kind = "query", !.uri = u]]
               /\ waitq' = waitq
    /\ UNCHANGED <<call, cache, readers, writer, changeCount, published>>

\* The miss branch without its drop(cache).
KeepReadGuard(rs, t) == rs

\* The readers after the miss branch has run drop(cache).
DropReadGuard(rs, t) == rs \ {t}

\* The miss branch taking the write lock before it calls compiler.ast.
QueryReadWriterFirst(t) ==
    /\ At(t, "q_wait_read")
    /\ CanRead(t)
    /\ waitq' = Tail(waitq)
    /\ IF task[t].uri \in DOMAIN cache
          THEN /\ readers' = readers \cup {t}
               /\ writer' = writer
               /\ task' = [task EXCEPT ![t].pc = "q_hit", ![t].hit = TRUE,
                                       ![t].data = cache[task[t].uri],
                                       ![t].hist = Append(@, "read_acquire")]
          ELSE /\ readers = {}
               /\ readers' = readers
               /\ writer' = t
               /\ task' = [task EXCEPT ![t].pc = "q_ast", ![t].pending = {"ast"},
                                       ![t].calls = Append(@, "ast"),
                                       ![t].astEpoch = changeCount[task[t].uri],
                                       ![t].hist = @ \o <<"read_acquire", "read_drop",
                                                          "write_acquire", "ask_ast">>]
    /\ UNCHANGED <<call, cache, changeCount, published, dispatched>>

\* The read lock is granted and the cache consulted. On a hit the AST is
\* cloned and the guard held across the log message. On a miss the guard is
\* dropped and compiler.ast called.
QueryRead(t) ==
    /\ At(t, "q_wait_read")
    /\ CanRead(t)
    /\ waitq' = Tail(waitq)
    /\ IF task[t].uri \in DOMAIN cache
          THEN /\ readers' = readers \cup {t}
               /\ task' = [task EXCEPT ![t].pc = "q_hit", ![t].hit = TRUE,
                                       ![t].data = cache[task[t].uri],
                                       ![t].hist = Append(@, "read_acquire")]
          ELSE /\ readers' = DropReadGuard(readers \cup {t}, t)
               /\ task' = [task EXCEPT ![t].pc = "q_ast", ![t].pending = {"ast"},
                                       ![t].calls = Append(@, "ast"),
                                       ![t].astEpoch = changeCount[task[t].uri],
                                       ![t].hist = @ \o <<"read_acquire", "read_drop", "ask_ast">>]
    /\ writer' = writer
    /\ UNCHANGED <<call, cache, changeCount, published, dispatched>>

\* The end of the hit branch: the read guard goes out of scope.
QueryHitRelease(t) ==
    /\ At(t, "q_hit")
    /\ readers' = readers \ {t}
    /\ task' = [task EXCEPT ![t].pc = "q_compute", ![t].hist = Append(@, "read_drop")]
    /\ UNCHANGED <<call, cache, writer, waitq, changeCount, published, dispatched>>

\* compiler.ast returns to a query: with an AST the handler waits for the
\* write lock, on an error it answers None.
QueryAstReturn(t, ok) ==
    /\ At(t, "q_ast")
    /\ IF ok
          THEN /\ task' = [task EXCEPT ![t].pc = "q_wait_write", ![t].astOk = TRUE,
                                       ![t].pending = {},
                                       ![t].data = AstOf(task[t].uri, task[t].astEpoch),
                                       ![t].hist = Append(@, "ast_return")]
               /\ waitq' = Enqueue(t, "w")
          ELSE /\ task' = [task EXCEPT ![t].pc = "done", ![t].pending = {},
                                       ![t].hist = Append(@, "ast_return")]
               /\ waitq' = waitq
    /\ UNCHANGED <<call, cache, readers, writer, changeCount, published, dispatched>>

\* A miss branch that fetches the AST and does not cache it.
QueryInsertNothing(m, u, ast) == m

\* A miss branch that stores the fetched AST under every cached URI too.
QueryInsertOverAll(m, u, ast) == [x \in (DOMAIN m) \cup {u} |-> ast]

\* The cache.insert of a query's miss branch.
QueryInsert(m, u, ast) == Insert(m, u, ast)

\* The write lock is granted and the fetched AST cached.
QueryCache(t) ==
    /\ At(t, "q_wait_write")
    /\ CanWrite(t)
    /\ waitq' = Tail(waitq)
    /\ writer' = t
    /\ cache' = QueryInsert(cache, task[t].uri, task[t].data)
    /\ task' = [task EXCEPT ![t].pc = "q_cached",
                            ![t].hist = @ \o <<"write_acquire", "store">>]
    /\ UNCHANGED <<call, readers, changeCount, published, dispatched>>

\* The end of the Ok arm: the write guard goes out of scope.
QueryCacheRelease(t) ==
    /\ At(t, "q_cached")
    /\ writer' = NoTask
    /\ task' = [task EXCEPT ![t].pc = "q_compute", ![t].hist = Append(@, "write_release")]
    /\ UNCHANGED <<call, cache, readers, waitq, changeCount, published, dispatched>>

\* The answer is computed from the AST. The four handlers are the same up
\* to here, so the request's method and cursor position are first read here.
QueryAnswer(t, kind, position) ==
    /\ At(t, "q_compute")
    /\ kind # "rename"
    /\ \E response \in Answers[kind][task[t].uri][position] :
          task' = [task EXCEPT ![t].pc = "done", ![t].kind = kind, ![t].position = position,
                               ![t].response = response]
    /\ UNCHANGED <<call, cache, readers, writer, waitq, changeCount, published, dispatched>>

\* The last part of rename: the plan, its split, the server-side application
\* to disk and the answer. Nothing in it awaits but log messages.
QueryRename(t, position, newName, faults) ==
    /\ At(t, "q_compute")
    /\ \E run \in RenameRuns[task[t].uri][position][newName][faults] :
          task' = [task EXCEPT ![t].pc = "done", ![t].kind = "rename",
                               ![t].position = position, ![t].plan = run.plan,
                               ![t].faults = run.faults,
                               ![t].client = run.client, ![t].server = run.server,
                               ![t].wrote = run.wrote, ![t].applyFailed = run.applyFailed,
                               ![t].response = run.response]
    /\ UNCHANGED <<call, cache, readers, writer, waitq, changeCount, published, dispatched>>

\* The transport takes the handler's completion: the task is gone.
Complete(t) ==
    /\ task[t].pc = "done"
    /\ task' = [task EXCEPT ![t] = Idle]
    /\ UNCHANGED <<call, cache, readers, writer, waitq, changeCount, published, dispatched>>

\* ------------------------------------------------------------ properties
IsQuery(t) == task[t].kind \in Queries \cup {"query"}
IsOnChange(t) == task[t].kind \in {"didOpen", "didSave"}
\* The history h is a prefix of the sequence s.
IsPrefix(h, s) == Len(h) <= Len(s) /\ \A i \in 1..Len(h) : h[i] = s[i]
\* Event a occurs in h before event b; event a occurs in h.
Before(h, a, b) == \E i, j \in 1..Len(h) : i < j /\ h[i] = a /\ h[j] = b
Occurs(h, a) == \E i \in 1..Len(h) : h[i] = a

\* C1: every cached AST comes from a driver call that began after the last
\* didChange its document has received: no AST fetched before a didChange
\* is in the cache after it.
C1_NoStaleEntry ==
    \A u \in DOMAIN cache : cache[u].epoch = changeCount[u]

\* C2: the step in which did_change holds the write lock removes the entry
\* of its URI and no other, and no step of a did_change task starts a
\* driver call or touches the cache otherwise.
C2_DidChangeFrame ==
    [][\A t \in Tasks :
          (task'[t].kind = "didChange" /\ task'[t] # task[t]) =>
              /\ \A x \in Tasks : task'[x].calls = task[x].calls /\ task'[x].pending = task[x].pending
              /\ task'[t].calls = <<>>
              /\ IF task[t].pc = "dc_wait_write"
                 THEN /\ DOMAIN cache' = DOMAIN cache \ {task[t].uri}
                      /\ \A u \in DOMAIN cache' : cache'[u] = cache[u]
                 ELSE cache' = cache]_vars

\* A did_change has removed the entry of its document while another
\* document's entry stays cached.
C2_Witness ==
    \E t \in Tasks :
        /\ task[t].kind = "didChange"
        /\ task[t].pc = "dc_log"
        /\ task[t].uri \notin DOMAIN cache
        /\ DOMAIN cache # {}

\* C3: when the AST call of a didOpen/didSave succeeded, the handler stores
\* exactly that AST under the document's URI before it ends, whatever the
\* lint and build calls returned.
C3_AstStoredOnOpenSave ==
    /\ [](\A t \in Tasks :
            (IsOnChange(t) /\ task[t].astOk /\ task[t].pc \in {"oc_cached", "oc_publish", "done"})
                => Occurs(task[t].hist, "store"))
    /\ [][\A t \in Tasks :
            (IsOnChange(t) /\ task[t].pc = "oc_wait_write" /\ task'[t].pc # "oc_wait_write") =>
                /\ task[t].uri \in DOMAIN cache'
                /\ cache'[task[t].uri] = AstOf(task[t].uri, task[t].astEpoch)
                /\ \A u \in DOMAIN cache' \ {task[t].uri} : u \in DOMAIN cache /\ cache'[u] = cache[u]]_vars

\* An open/save whose lint and build calls both failed has cached its AST.
C3_Witness ==
    \E t \in Tasks :
        /\ IsOnChange(t)
        /\ task[t].pc = "oc_cached"
        /\ ~task[t].lint.ok /\ ~task[t].build.ok
        /\ task[t].uri \in DOMAIN cache
        /\ cache[task[t].uri] = task[t].data

\* C4: a task with a driver call in flight holds neither a read nor the
\* write guard of the cache.
C4_NoLockAcrossDriverCall ==
    \A t \in Tasks : task[t].pending # {} => (t \notin readers /\ writer # t)

\* A query has taken the read lock, missed, and is waiting for the driver
\* while another task holds the cache lock.
C4_Witness ==
    \E t \in Tasks :
        /\ task[t].pc = "q_ast"
        /\ Occurs(task[t].hist, "read_acquire")
        /\ \E x \in Tasks \ {t} : writer = x \/ x \in readers

\* The steps of a query's miss branch as the code takes them.
MissSteps ==
    <<"read_acquire", "read_drop", "ask_ast", "ast_return", "write_acquire", "store",
      "write_release">>

\* C5 as stated: on a miss the write lock is acquired before askAst is
\* called.
C5_WriterBeforeAskAst ==
    \A t \in Tasks :
        (IsQuery(t) /\ Occurs(task[t].hist, "ask_ast"))
            => Before(task[t].hist, "write_acquire", "ask_ast")

\* C5 amended: on a miss the read lock is dropped, askAst is called with no
\* lock held, and only after it has returned is the write lock acquired and
\* the result stored under it.
C5_MissOrder ==
    \A t \in Tasks :
        (IsQuery(t) /\ ~task[t].hit) =>
            /\ IsPrefix(task[t].hist, MissSteps)
            /\ task[t].pc = "q_ast" => (writer # t /\ t \notin readers)
            /\ task[t].pc = "q_cached" =>
                  (writer = t /\ task[t].uri \in DOMAIN cache /\ cache[task[t].uri] = task[t].data)

\* A query has run its whole miss branch.
C5_Witness ==
    \E t \in Tasks : IsQuery(t) /\ ~task[t].hit /\ task[t].hist = MissSteps

\* C7: a query that finds its document's entry starts no driver call and
\* works on the entry it read; one that finds none calls compiler.ast once,
\* and when the call succeeded and no didChange of the document came in
\* between, the document has an entry when the query returns.
C7_HitAndMiss ==
    \A t \in Tasks :
        (IsQuery(t) /\ Occurs(task[t].hist, "read_acquire")) =>
            IF task[t].hit
            THEN /\ task[t].calls = <<>>
                 /\ task[t].pending = {}
                 /\ task[t].data.uri = task[t].uri
                 /\ task[t].pc = "q_hit" =>
                       (task[t].uri \in DOMAIN cache /\ task[t].data = cache[task[t].uri])
            ELSE /\ task[t].calls = <<"ast">>
                 /\ (task[t].pc = "done" /\ task[t].astOk
                        /\ changeCount[task[t].uri] = task[t].astEpoch)
                      => (task[t].uri \in DOMAIN cache /\ cache[task[t].uri].uri = task[t].uri)

\* One query returns after a successful miss with its document cached while
\* another is working on a hit.
C7_Witness ==
    /\ \E t \in Tasks :
          /\ IsQuery(t) /\ task[t].pc = "done" /\ ~task[t].hit /\ task[t].astOk
          /\ task[t].calls = <<"ast">>
          /\ changeCount[task[t].uri] = task[t].astEpoch
          /\ task[t].uri \in DOMAIN cache
    /\ \E x \in Tasks : IsQuery(x) /\ task[x].pc = "q_hit" /\ task[x].calls = <<>>

\* How often event e occurs in h.
Count(h, e) == Cardinality({i \in 1..Len(h) : h[i] = e})

\* C8: an open/save that reached the compiler has published exactly once
\* when it returns and not before, and what it published is the lint
\* diagnostics when lint succeeded followed by the build diagnostics when
\* build succeeded, whatever the other calls returned.
C8_PublishOnce ==
    \A t \in Tasks :
        (IsOnChange(t) /\ task[t].calls # <<>>) =>
            IF task[t].pc = "done"
            THEN /\ task[t].pubs = 1
                 /\ Count(published[task[t].uri], task[t].seq) = 1
                 /\ (task[t].lint.ok /\ task[t].build.ok)
                       => task[t].sent = task[t].lint.diags \o task[t].build.diags
                 /\ (task[t].lint.ok /\ ~task[t].build.ok) => task[t].sent = task[t].lint.diags
                 /\ (~task[t].lint.ok /\ task[t].build.ok) => task[t].sent = task[t].build.diags
                 /\ (~task[t].lint.ok /\ ~task[t].build.ok) => task[t].sent = <<>>
            ELSE /\ task[t].pubs = 0
                 /\ Count(published[task[t].uri], task[t].seq) = 0

\* An open/save whose lint and AST calls failed has published the build
\* diagnostics alone.
C8_Witness ==
    \E t \in Tasks :
        /\ IsOnChange(t) /\ task[t].pc = "done" /\ task[t].pubs = 1
        /\ ~task[t].lint.ok /\ task[t].build.ok /\ ~task[t].astOk
        /\ task[t].sent = <<"build1">>

\* C9: the publications of a URI are in the order in which their
\* open/save events were dispatched, and an open/save publishes only when
\* its three driver calls have returned and, with an AST, after it has
\* cached it and dropped the lock.
C9_PublishOrder ==
    /\ \A u \in Uris : \A i, j \in 1..Len(published[u]) :
          i < j => published[u][i] < published[u][j]
    /\ \A t \in Tasks :
          (IsOnChange(t) /\ Occurs(task[t].hist, "publish")) =>
              /\ task[t].pending = {}
              /\ writer # t
              /\ task[t].hist = IF task[t].astOk
                                THEN <<"write_acquire", "store", "write_release", "publish">>
                                ELSE <<"publish">>

\* The second open/save of a document has published after the first, having
\* cached its AST.
C9_Witness ==
    \E t \in Tasks :
        /\ IsOnChange(t) /\ task[t].pc = "done" /\ task[t].astOk
        /\ Len(published[task[t].uri]) = 2
        /\ published[task[t].uri][2] = task[t].seq

\* C10: the client edit of a rename holds the plan's edits of the request's
\* URI and nothing else, the server edit the plan's edits of every other
\* URI; the two share no URI and together are the plan; the response, when
\* there is one, is the client edit, and the server writes no file but
\* those of its edit.
C10_RenamePartition ==
    \A t \in Tasks :
        (task[t].pc = "done" /\ task[t].kind = "rename" /\ task[t].plan.some) =>
            LET plan == task[t].plan.changes
                client == task[t].client
                server == task[t].server
            IN /\ DOMAIN client = DOMAIN plan \cap {task[t].uri}
               /\ DOMAIN server = DOMAIN plan \ {task[t].uri}
               /\ \A f \in DOMAIN client : client[f] = plan[f]
               /\ \A f \in DOMAIN server : server[f] = plan[f]
               /\ DOMAIN client \cap DOMAIN server = {}
               /\ DOMAIN client \cup DOMAIN server = DOMAIN plan
               /\ task[t].response.some => task[t].response.changes = client
               /\ \A path \in DOMAIN task[t].wrote : UriOf(path) \in DOMAIN server

\* A rename whose plan has edits in the request's document and in another
\* one has written the other file and answers with the client edit.
C10_Witness ==
    \E t \in Tasks :
        /\ task[t].pc = "done" /\ task[t].kind = "rename" /\ task[t].plan.some
        /\ DOMAIN task[t].client # {}
        /\ DOMAIN task[t].server # {}
        /\ DOMAIN task[t].wrote # {}
        /\ task[t].response.some

\* A rename has returned, with a plan that has edits for other documents.
RenameDone(t) ==
    /\ task[t].pc = "done" /\ task[t].kind = "rename" /\ task[t].plan.some
    /\ DOMAIN task[t].server # {}

\* C11: a rename whose server-side application failed answers None, never
\* the client edit.
C11_FailedApplyAnswersNone ==
    \A t \in Tasks : (RenameDone(t) /\ task[t].applyFailed) => task[t].response = None

\* A rename with edits for the request's document has failed to write
\* another file and answers None.
C11_Witness ==
    \E t \in Tasks :
        /\ RenameDone(t) /\ task[t].applyFailed
        /\ \E f \in DOMAIN task[t].server : PathOf(f) \in task[t].faults.unwritable
        /\ DOMAIN task[t].client # {}
        /\ task[t].response = None

\* C12: a rename that answers None because its server-side application
\* failed has rewritten no file.
C12_FailedApplyWritesNothing ==
    \A t \in Tasks : (RenameDone(t) /\ task[t].applyFailed) => DOMAIN task[t].wrote = {}

\* C13: a server-side target file that cannot be read when the edits are
\* applied is skipped: every other target file is rewritten, the rename is
\* not aborted and the client edit is the answer.
C13_UnreadableTargetSkipped ==
    \A t \in Tasks :
        (/\ RenameDone(t)
         /\ \E f \in DOMAIN task[t].server : PathOf(f) \in task[t].faults.unreadableOnApply
         /\ \A f \in DOMAIN task[t].server : PathOf(f) \notin task[t].faults.unwritable)
        => /\ ~task[t].applyFailed
           /\ \A f \in DOMAIN task[t].server :
                 PathOf(f) \notin task[t].faults.unreadableOnApply => PathOf(f) \in DOMAIN task[t].wrote
           /\ DOMAIN task[t].client # {} => task[t].response = SomeEdit(task[t].client)

Next ==
    \/ \E t \in Tasks, u \in Uris : DidChange(t, u)
    \/ \E t \in Tasks : DidChangeLocked(t)
    \/ \E t \in Tasks : DidChangeRelease(t)
    \/ \E t \in Tasks, kind \in LogOnly : LogOnlyNotification(t, kind)
    \/ \E t \in Tasks, u \in Uris : DidOpen(t, u)
    \/ \E t \in Tasks, u \in Uris, hasText \in BOOLEAN, readOk \in BOOLEAN :
          DidSave(t, u, hasText, readOk)
    \/ \E t \in Tasks, lintRes \in LintOutcomes, buildRes \in BuildOutcomes, astOk \in BOOLEAN :
          OnChangeJoined(t, lintRes, buildRes, astOk)
    \/ \E t \in Tasks : OnChangeCache(t)
    \/ \E t \in Tasks : OnChangeRelease(t)
    \/ \E t \in Tasks : OnChangePublish(t)
    \/ \E t \in Tasks, u \in Uris, readOk \in BOOLEAN : Query(t, u, readOk)
    \/ \E t \in Tasks : QueryRead(t)
    \/ \E t \in Tasks : QueryHitRelease(t)
    \/ \E t \in Tasks, ok \in BOOLEAN : QueryAstReturn(t, ok)
    \/ \E t \in Tasks : QueryCache(t)
    \/ \E t \in Tasks : QueryCacheRelease(t)
    \/ \E t \in Tasks, kind \in Queries, position \in Positions : QueryAnswer(t, kind, position)
    \/ \E t \in Tasks, position \in Positions, newName \in NewNames, faults \in IoFaults :
          QueryRename(t, position, newName, faults)
    \/ \E t \in Tasks : Complete(t)

Spec == Init /\ [][Next]_vars
\* ---------------------------------------- a flurry of references requests
\* The document every request of the flurry is about.
FlurryUri == "file:///b.sol"

\* A references request on the flurry's document; its source file is there.
FlurryQuery(t) == Query(t, FlurryUri, TRUE)

\* The cache starts cold, nothing but references requests on one document
\* arrives, and the driver succeeds.
FlurryNext ==
    \E t \in Tasks :
        \/ FlurryQuery(t)
        \/ QueryRead(t)
        \/ QueryHitRelease(t)
        \/ QueryAstReturn(t, TRUE)
        \/ QueryCache(t)
        \/ QueryCacheRelease(t)
        \/ \E position \in Positions : QueryAnswer(t, "references", position)
        \/ Complete(t)

\* The runtime polls every task that can make progress, the lock serves its
\* queue, and the driver returns; no request has to arrive.
FlurryFairness ==
    \A t \in Tasks :
        /\ WF_vars(QueryRead(t))
        /\ WF_vars(QueryHitRelease(t))
        /\ WF_vars(QueryAstReturn(t, TRUE))
        /\ WF_vars(QueryCache(t))
        /\ WF_vars(QueryCacheRelease(t))
        /\ WF_vars(\E position \in Positions : QueryAnswer(t, "references", position))
        /\ WF_vars(Complete(t))

FlurrySpec == Init /\ [][FlurryNext]_vars /\ FlurryFairness

\* Node i of a file refers to a declaration or is referred to by a node.
HasReferences(i, node) ==
    \/ node.referencedDeclaration # NoId
    \/ \E p \in DOMAIN NodeTable : \E k \in DOMAIN NodeTable[p] :
          NodeTable[p][k].referencedDeclaration = i

\* The cursor is on a symbol, and what spans it has references.
OnReferencedSymbol(u, position) ==
    LET off == PosToBytes(Disk[PathOf(u)], position)
        nodes == NodeTable[PathOf(u)]
        start(i) == ParseUsize(SrcParts(nodes[i])[1])
        length(i) == ParseUsize(SrcParts(nodes[i])[2])
        at == {i \in DOMAIN nodes : start(i) <= off /\ off < start(i) + length(i)}
    IN at # {} /\ \A i \in at : HasReferences(i, nodes[i])

\* C6: in a flurry of references requests on one document over a cold cache
\* with the driver succeeding, every request that waits for the cache lock
\* gets its answer, and the answer holds locations whenever the cursor is on
\* a symbol with references.
C6_FlurryCompletes ==
    \A t \in Tasks :
        (task[t].pc \in {"q_wait_read", "q_ast", "q_wait_write"}) ~>
            (/\ task[t].pc = "done"
             /\ task[t].kind = "references"
             /\ OnReferencedSymbol(task[t].uri, task[t].position)
                   => (task[t].response.some /\ task[t].response.locations # <<>>))

\* Two requests of the flurry have each made their own compiler.ast call,
\* and one of them returns locations.
C6_Witness ==
    \E t, x \in Tasks :
        /\ t # x
        /\ task[t].calls = <<"ast">> /\ task[x].calls = <<"ast">>
        /\ task[t].uri = task[x].uri
        /\ task[t].pc = "done" /\ task[t].response.some
        /\ task[t].response.locations # <<>>

\* ------------------------------------------- the library functions alone
\* What the handlers hold while a library function is called on its own.
Orchestrator == <<cache, readers, writer, waitq, task, changeCount, published, dispatched>>

\* The call returns.
Return ==
    /\ call # NoCall
    /\ call' = NoCall
    /\ UNCHANGED Orchestrator

\* ------------------------------------------ server-side edits of one file
\* Edits one file receives in one application.
MaxEdits == 2

\* Files as bytes: with line feeds, without a final newline, with CRLF.
CrlfFile == <<"a", "\r", "\n", "b", "\r", "\n">>
FileContents ==
    {<<"a", "b", "\n", "c", "\n">>, <<"a", "b", "\n", "c">>, CrlfFile}

\* The position of a byte offset of a file: the line feeds before it, and the
\* bytes since the last of them.
PositionAt(content, off) ==
    LET feeds == {k \in 1..off : content[k] = "\n"}
        last == IF feeds = {} THEN 0 ELSE CHOOSE k \in feeds : \A j \in feeds : j <= k
    IN Pos(Cardinality(feeds), off - last)

\* The replacements of a byte span [from, to) of a file by a text: nothing,
\* or a name longer than what it replaces.
ByteSpans(content) ==
    {sp \in [from : 0..Len(content), to : 0..Len(content), text : {<<>>, <<"z", "z">>}] : sp.from <= sp.to}

\* The lists of up to MaxEdits replacements.
SpanLists(content) == UNION {[1..n -> ByteSpans(content)] : n \in 1..MaxEdits}

\* The TextEdit that designates a byte span by its positions.
EditOfSpan(content, sp) ==
    [range |-> [start |-> PositionAt(content, sp.from), end |-> PositionAt(content, sp.to)],
     newText |-> sp.text]

\* The body of apply_workspace_edit for one file that was read: the edits
\* sorted and applied; what would be written, or the failure.
CallApplyEdits(content, spans) ==
    /\ call = NoCall
    /\ call' = [fn |-> "apply_edits", content |-> content, spans |-> spans,
                result |-> ApplyEdits(content,
                                      SortEdits([i \in DOMAIN spans |-> EditOfSpan(content, spans[i])]))]
    /\ UNCHANGED Orchestrator

\* byte_offset_to_position: the walk over the characters that start before
\* the offset, a newline starting the next line; always Some.
ByteOffsetToPosition(content, byteOffset) ==
    LET walked == IF byteOffset > Len(content) THEN Len(content) ELSE byteOffset
        feeds == {k \in 1..walked : content[k] = "\n"}
        last == IF feeds = {} THEN 0 ELSE CHOOSE k \in feeds : \A j \in feeds : j <= k
    IN Pos(Cardinality(feeds), walked - last)

\* byte_offset on a content and a position, and the position of the offset
\* it returned.
CallByteOffset(content, position) ==
    /\ call = NoCall
    /\ call' = [fn |-> "byte_offset", content |-> content, position |-> position,
                result |-> ByteOffset(content, position),
                back |-> IF ByteOffset(content, position) = ErrOffset THEN NoPos
                         ELSE ByteOffsetToPosition(content, ByteOffset(content, position))]
    /\ UNCHANGED Orchestrator

EditNext ==
    \/ \E content \in FileContents : \E spans \in SpanLists(content) : CallApplyEdits(content, spans)
    \/ \E content \in FileContents \cup {<<>>, <<"\n", "a">>} :
          \E position \in {Pos(l, c) : l \in 0..3, c \in 0..4} : CallByteOffset(content, position)
    \/ Return

EditSpec == Init /\ [][EditNext]_vars

\* No two of the spans share a byte or a start.
NonOverlapping(spans) ==
    \A i, j \in DOMAIN spans :
        i # j => /\ spans[i].from # spans[j].from
                 /\ spans[i].to <= spans[j].from \/ spans[j].to <= spans[i].from

\* The spans from the lowest start to the highest.
RECURSIVE Ascending(_)
Ascending(spans) ==
    IF spans = <<>> THEN <<>>
    ELSE LET m == CHOOSE i \in DOMAIN spans : \A j \in DOMAIN spans : spans[i].from <= spans[j].from
         IN <<spans[m]>> \o Ascending(SubSeq(spans, 1, m - 1) \o SubSeq(spans, m + 1, Len(spans)))

\* The substitution done by hand: the bytes of the original outside the
\* spans, with each span's text in its place.
RECURSIVE Substitute(_, _, _)
Substitute(content, spans, from) ==
    IF spans = <<>> THEN SubSeq(content, from + 1, Len(content))
    ELSE SubSeq(content, from + 1, Head(spans).from) \o Head(spans).text
         \o Substitute(content, Tail(spans), Head(spans).to)

\* C14: for edits whose ranges are valid positions of the file and do not
\* overlap, one file's application succeeds and gives the content that
\* substituting every range at once in the original gives.
C14_AppliesAsSimultaneousSubstitution ==
    (call.fn = "apply_edits" /\ NonOverlapping(call.spans)) =>
        /\ call.result.ok
        /\ call.result.content = Substitute(call.content, Ascending(call.spans), 0)

\* The bytes [from, to) of the file are a whole word.
IsIdentifierSpan(content, sp) ==
    /\ sp.from < sp.to
    /\ \A k \in sp.from + 1..sp.to : IsWordByte(content[k])
    /\ sp.from > 0 => ~IsWordByte(content[sp.from])
    /\ sp.to < Len(content) => ~IsWordByte(content[sp.to + 1])

\* C15: in a file with CRLF line endings, an edit that renames the
\* identifier of any line replaces the identifier's bytes and leaves every
\* other byte, the carriage returns and line feeds among them, as it was.
C15_CrlfPreserved ==
    (/\ call.fn = "apply_edits"
     /\ call.content = CrlfFile
     /\ Len(call.spans) = 1
     /\ IsIdentifierSpan(call.content, call.spans[1])
     /\ call.spans[1].text # <<>>)
    => /\ call.result.ok
       /\ call.result.content = Substitute(call.content, call.spans, 0)

\* ------------------------------------------------ the reference functions
\* Nodes a file table holds.
MaxNodes == 3

\* The file a node of a table is in: the first in /a.sol, the others in /b.sol.
FileOfNode(i) == IF i = 1 THEN "/a.sol" ELSE "/b.sol"

\* The table of the nodes of ids with the fields given per id.
TableOf(ids, fields) ==
    [p \in {"/a.sol", "/b.sol"} |-> [i \in {k \in ids : FileOfNode(k) = p} |-> fields[i]]]

\* The tables over every subset of the ids, each node drawn from options.
TablesOver(options) ==
    UNION {{TableOf(ids, fields) : fields \in [ids -> options]} : ids \in SUBSET (1..MaxNodes)}

\* Nodes that differ in what they refer to; 4 is an id no table holds.
GraphNodes ==
    {[src |-> Span(0, 1, 1), nameLocation |-> NoSpan, referencedDeclaration |-> d] :
        d \in {NoId, 1, 2, 3, 4}}

\* all_references on a table.
CallAllReferences(nodes) ==
    /\ call = NoCall
    /\ call' = [fn |-> "all_references", nodes |-> nodes, result |-> AllReferences(nodes)]
    /\ UNCHANGED Orchestrator

\* Nodes that differ in their src text: nested and disjoint spans, a text of
\* two parts, and texts whose start or length is no number.
SpanNodes ==
    {[src |-> t, nameLocation |-> NoSpan, referencedDeclaration |-> NoId] :
        t \in {Span(0, 5, 1), Span(0, 1, 1), Span(4, 1, 1), <<"0", ":", "1">>,
               <<"x", ":", "1", ":", "1">>, <<"4", ":", "x", ":", "1">>}}

\* What a caller gets of the ids byte_to_id may keep: one of them, or None.
OneOf(ids) == IF ids = {} THEN {NoId} ELSE ids

\* byte_to_id on a table, a file and a byte offset.
CallByteToId(nodes, absPath, bytePosition) ==
    /\ call = NoCall
    /\ \E id \in OneOf(ByteToId(nodes, absPath, bytePosition)) :
          call' = [fn |-> "byte_to_id", nodes |-> nodes, absPath |-> absPath,
                   bytePosition |-> bytePosition, result |-> id]
    /\ UNCHANGED Orchestrator

\* byte_to_id called twice in a run on the same table content, path and
\* byte: on one HashMap both calls iterate alike; a table that cache_ids
\* built anew, as it does for each goto_references, is another HashMap with
\* an iteration order of its own.
CallByteToIdTwice(nodes, absPath, bytePosition, rebuilt) ==
    /\ call = NoCall
    /\ \E first \in OneOf(ByteToId(nodes, absPath, bytePosition)) :
          \E second \in IF rebuilt THEN OneOf(ByteToId(nodes, absPath, bytePosition))
                         ELSE {first} :
             call' = [fn |-> "byte_to_id_twice", nodes |-> nodes, absPath |-> absPath,
                      bytePosition |-> bytePosition, rebuilt |-> rebuilt,
                      result |-> first, again |-> second]
    /\ UNCHANGED Orchestrator

\* The declaration of x in /a.sol, with the name as its nameLocation.
DeclarationNodes ==
    {[src |-> Span(0, 6, 0), nameLocation |-> Span(5, 1, 0), referencedDeclaration |-> NoId]}

\* Nodes of /b.sol: the expression "x + y", its operands x and y, each either
\* a use of the declaration 1 or a node that refers to nothing.
UseNodes ==
    {[src |-> t, nameLocation |-> NoSpan, referencedDeclaration |-> d] :
        t \in {Span(0, 5, 1), Span(0, 1, 1), Span(4, 1, 1)}, d \in {NoId, 1}}

\* Uses of the declaration 1 whose location does not resolve: the file of
\* the span is gone, its file id is in no path index, the span ends past the
\* end of the file, its length is no number, it has two parts.
UnresolvedNodes ==
    {[src |-> t, nameLocation |-> NoSpan, referencedDeclaration |-> 1] :
        t \in {Span(0, 1, 3), Span(0, 1, 9), Span(4, 9, 1),
               <<"0", ":", "x", ":", "1">>, <<"0", ":", "1">>}}

\* The tables with declarations in /a.sol and uses in /b.sol.
ReferenceTables ==
    UNION {{TableOf(ids, fields) :
                fields \in {f \in [ids -> DeclarationNodes \cup UseNodes \cup UnresolvedNodes] :
                               \A i \in ids : f[i] \in DeclarationNodes <=> FileOfNode(i) = "/a.sol"}} :
           ids \in SUBSET (1..MaxNodes)}

\* The cursor positions goto_references is asked about, on the first line.
CursorPositions == {Pos(0, c) : c \in {0, 4, 5}}

\* goto_references on a table at a cursor of a file; nodeId is what
\* byte_to_id returned there, order the iteration order of the HashSet.
CallGotoReferences(nodes, absPath, position, order) ==
    /\ call = NoCall
    /\ \E nodeId \in OneOf(ByteToId(nodes, absPath, PosToBytes(Disk[absPath], position))) :
          call' = [fn |-> "goto_references", nodes |-> nodes, absPath |-> absPath,
                   position |-> position, nodeId |-> nodeId,
                   result |-> IF nodeId = NoId THEN <<>>
                              ELSE ReferencesOf(nodes, SourceIdToPath, absPath, nodeId, order)]
    /\ UNCHANGED Orchestrator

\* The driver's JSON output as goto_references reads it: whether it has the
\* key sources and what cache_ids extracts from its value, whether it has an
\* array build_infos and, per element, whether that has an object
\* source_id_to_path.
BuildInfo(has) == [hasSourceIdToPath |-> has, sourceIdToPath |-> SourceIdToPath]
AstData(hasSources, sources, hasBuildInfos, buildInfos) ==
    [hasSources |-> hasSources, sources |-> sources,
     hasBuildInfos |-> hasBuildInfos, buildInfos |-> buildInfos]

\* The sources of a project: x declared in /a.sol and used in /b.sol.
SomeSources ==
    TableOf({1, 2}, [i \in {1, 2} |->
                       IF i = 1
                       THEN [src |-> Span(0, 6, 0), nameLocation |-> Span(5, 1, 0),
                             referencedDeclaration |-> NoId]
                       ELSE [src |-> Span(0, 1, 1), nameLocation |-> NoSpan,
                             referencedDeclaration |-> 1]])
\* A sources object without entries.
EmptySources == <<>>

\* The complete output, and the outputs that lack a part.
AstShapes ==
    {AstData(TRUE, SomeSources, TRUE, <<BuildInfo(TRUE)>>),
     AstData(FALSE, EmptySources, TRUE, <<BuildInfo(TRUE)>>),
     AstData(TRUE, SomeSources, FALSE, <<>>),
     AstData(TRUE, SomeSources, TRUE, <<>>),
     AstData(TRUE, SomeSources, TRUE, <<BuildInfo(FALSE)>>),
     AstData(TRUE, SomeSources, TRUE, <<BuildInfo(FALSE), BuildInfo(TRUE)>>),
     AstData(TRUE, EmptySources, TRUE, <<BuildInfo(TRUE)>>)}

\* cache_ids on the value of sources: the node table, and per request path
\* the absolute path of the file.
CacheIdsOf(sources) == [nodes |-> sources, pathToAbs |-> [p \in DOMAIN sources |-> p]]

\* A goto_references that takes the paths of the project when the output
\* has no usable build_infos.
GotoReferencesHeadLenient(astData, fileUri) ==
    IF ~astData.hasSources \/ ~ToFilePathOk(fileUri)
       \/ PathOf(fileUri) \notin DOMAIN CacheIdsOf(astData.sources).pathToAbs
    THEN [ok |-> FALSE, nodes |-> <<>>, idToPath |-> <<>>, absPath |-> ""]
    ELSE [ok |-> TRUE, nodes |-> CacheIdsOf(astData.sources).nodes, idToPath |-> SourceIdToPath,
          absPath |-> CacheIdsOf(astData.sources).pathToAbs[PathOf(fileUri)]]

NoHead == [ok |-> FALSE, nodes |-> <<>>, idToPath |-> <<>>, absPath |-> ""]

\* The first part of goto_references: the node table, the path index and
\* the absolute path of the document, or none, on which it returns vec![].
GotoReferencesHead(astData, fileUri) ==
    IF ~astData.hasSources THEN NoHead
    ELSE IF ~astData.hasBuildInfos THEN NoHead
    ELSE IF astData.buildInfos = <<>> THEN NoHead
    ELSE IF ~Head(astData.buildInfos).hasSourceIdToPath THEN NoHead
    ELSE LET ids == CacheIdsOf(astData.sources) IN
         IF ~ToFilePathOk(fileUri) THEN NoHead
         ELSE IF PathOf(fileUri) \notin DOMAIN ids.pathToAbs THEN NoHead
         ELSE [ok |-> TRUE, nodes |-> ids.nodes,
               idToPath |-> Head(astData.buildInfos).sourceIdToPath,
               absPath |-> ids.pathToAbs[PathOf(fileUri)]]

\* goto_references on an output of the driver, a document and a cursor.
CallGotoReferencesOnAst(astData, fileUri, position, order) ==
    /\ call = NoCall
    /\ LET head == GotoReferencesHead(astData, fileUri) IN
       \E nodeId \in IF head.ok
                      THEN OneOf(ByteToId(head.nodes, head.absPath,
                                          PosToBytes(Disk[head.absPath], position)))
                      ELSE {NoId} :
          call' = [fn |-> "goto_references_on_ast", astData |-> astData, fileUri |-> fileUri,
                   position |-> position,
                   result |-> IF nodeId = NoId THEN <<>>
                              ELSE ReferencesOf(head.nodes, head.idToPath, head.absPath,
                                                nodeId, order)]
    /\ UNCHANGED Orchestrator

RefsNext ==
    \/ \E nodes \in TablesOver(GraphNodes) : CallAllReferences(nodes)
    \/ \E nodes \in TablesOver(SpanNodes) : \E bytePosition \in {0, 1, 4, 5} :
          CallByteToId(nodes, "/b.sol", bytePosition)
    \/ \E nodes \in TablesOver(SpanNodes) : \E bytePosition \in {0, 1, 4, 5} :
          \E rebuilt \in BOOLEAN : CallByteToIdTwice(nodes, "/b.sol", bytePosition, rebuilt)
    \/ \E nodes \in ReferenceTables : \E absPath \in {"/a.sol", "/b.sol"} :
          \E position \in CursorPositions : \E order \in Orders :
             CallGotoReferences(nodes, absPath, position, order)
    \/ \E astData \in AstShapes : \E fileUri \in Uris :
          \E position \in CursorPositions : \E order \in Orders :
             CallGotoReferencesOnAst(astData, fileUri, position, order)
    \/ Return

RefsSpec == Init /\ [][RefsNext]_vars

\* Node a of the table refers to b.
RefersTo(nodes, a, b) ==
    a \in NodeIds(nodes) /\ b # NoId /\ NodeOf(nodes, a).referencedDeclaration = b

\* b is among the neighbours the graph gives a.
Adjacent(graph, a, b) == a \in DOMAIN graph /\ b \in graph[a]

\* C18: in the graph all_references builds, b is a neighbour of a exactly
\* when a is a neighbour of b, and exactly when one of the two nodes has
\* the other as its referencedDeclaration.
C18_GraphSymmetric ==
    call.fn = "all_references" =>
        \A a, b \in 1..MaxNodes + 1 :
            /\ Adjacent(call.result, a, b) <=> Adjacent(call.result, b, a)
            /\ Adjacent(call.result, a, b)
                  <=> (RefersTo(call.nodes, a, b) \/ RefersTo(call.nodes, b, a))

\* The graph of a table in which a node of /b.sol refers to the node of
\* /a.sol has the edge in both directions.
C18_Witness ==
    /\ call.fn = "all_references"
    /\ RefersTo(call.nodes, 2, 1)
    /\ Adjacent(call.result, 1, 2) /\ Adjacent(call.result, 2, 1)

\* The src of a node is three numbers.
WellFormedSrc(node) ==
    /\ Len(SrcParts(node)) = 3
    /\ \A k \in 1..3 : ParseUsize(SrcParts(node)[k]) # NotANumber

\* The src of a node is three parts of which the start and the length are
\* numbers, or it has another number of parts.
ReadableSrc(node) ==
    Len(SrcParts(node)) = 3 =>
        (ParseUsize(SrcParts(node)[1]) # NotANumber /\ ParseUsize(SrcParts(node)[2]) # NotANumber)

\* The nodes of a file whose span [start, start + length) holds the byte.
Containing(fileNodes, byte) ==
    {i \in DOMAIN fileNodes :
        /\ Len(SrcParts(fileNodes[i])) = 3
        /\ ParseUsize(SrcParts(fileNodes[i])[1]) <= byte
        /\ byte < ParseUsize(SrcParts(fileNodes[i])[1]) + ParseUsize(SrcParts(fileNodes[i])[2])}

\* C19: on a file whose spans of three parts have numbers for start and
\* length, byte_to_id returns a node whose span holds the byte and is no
\* longer than any other span that holds it, and None only when no span
\* holds the byte; the byte at start + length is outside the span.
C19_ShortestEnclosing ==
    (/\ call.fn = "byte_to_id"
     /\ \A i \in DOMAIN call.nodes[call.absPath] : ReadableSrc(call.nodes[call.absPath][i]))
    => LET fileNodes == call.nodes[call.absPath]
           holding == Containing(fileNodes, call.bytePosition)
       IN IF call.result = NoId THEN holding = {}
          ELSE /\ call.result \in holding
               /\ \A j \in holding :
                     ParseUsize(SrcParts(fileNodes[call.result])[2])
                        <= ParseUsize(SrcParts(fileNodes[j])[2])

\* byte_to_id has returned the inner of two nested nodes of a file at a
\* byte both hold.
C19_Witness ==
    /\ call.fn = "byte_to_id"
    /\ call.bytePosition = 0
    /\ call.absPath = "/b.sol"
    /\ DOMAIN call.nodes["/b.sol"] = {2, 3}
    /\ call.nodes["/b.sol"][2].src = Span(0, 5, 1)
    /\ call.nodes["/b.sol"][3].src = Span(0, 1, 1)
    /\ call.result = 3

\* The table without node m of the file.
WithoutNode(nodes, absPath, m) ==
    [p \in DOMAIN nodes |->
        IF p = absPath THEN [i \in DOMAIN nodes[p] \ {m} |-> nodes[p][i]] ELSE nodes[p]]

\* C20: a node whose src is not three numbers does not change what
\* byte_to_id returns: the result is one the file without the node gives.
C20_MalformedSkipped ==
    call.fn = "byte_to_id" =>
        \A m \in DOMAIN call.nodes[call.absPath] :
            ~WellFormedSrc(call.nodes[call.absPath][m]) =>
                call.result \in OneOf(ByteToId(WithoutNode(call.nodes, call.absPath, m),
                                               call.absPath, call.bytePosition))

\* The elements of a list.
ElementsOf(list) == {list[k] : k \in DOMAIN list}

\* The sets of locations goto_references may return at a cursor of a file.
ReferenceSets(nodes, absPath, position) ==
    {IF nodeId = NoId THEN {}
     ELSE ElementsOf(ReferencesOf(nodes, SourceIdToPath, absPath, nodeId, order)) :
        nodeId \in OneOf(ByteToId(nodes, absPath, PosToBytes(Disk[absPath], position))),
        order \in Orders}

\* C16: goto_references asked at the start of a location it has returned
\* returns the same set of locations again.
C16_SameSetFromEveryLocation ==
    call.fn = "goto_references" =>
        \A loc \in ElementsOf(call.result) :
            \A again \in ReferenceSets(call.nodes, PathOf(loc.uri), loc.range.start) :
                again = ElementsOf(call.result)

\* The locations of the ids that resolve.
LocationsOf(nodes, ids) ==
    {IdToLocation(nodes, SourceIdToPath, i) : i \in ids} \ {NoLocation}

\* The node goto_references looks the references up for.
TargetOf(nodes, absPath, nodeId) ==
    IF nodes[absPath][nodeId].referencedDeclaration # NoId
    THEN nodes[absPath][nodeId].referencedDeclaration ELSE nodeId

\* C17: when a node is found at the cursor, goto_references returns the
\* location of the target and the locations of the nodes adjacent to it in
\* the reference graph, the target's own also when nothing is adjacent.
C17_TargetAndAdjacent ==
    (call.fn = "goto_references" /\ call.nodeId # NoId) =>
        LET target == TargetOf(call.nodes, call.absPath, call.nodeId)
            graph == AllReferences(call.nodes)
            adjacent == IF target \in DOMAIN graph THEN graph[target] ELSE {}
        IN ElementsOf(call.result) = LocationsOf(call.nodes, adjacent \cup {target})

\* C21: the list goto_references returns holds no location twice.
C21_NoDuplicateLocation ==
    call.fn = "goto_references" =>
        \A i \in DOMAIN call.result : \A j \in DOMAIN call.result :
            (i # j) => (call.result[i] # call.result[j])

\* goto_references has answered for a declaration with two uses that have
\* one location: the list has the declaration and that location once.
C21_Witness ==
    /\ call.fn = "goto_references"
    /\ DOMAIN call.nodes["/a.sol"] = {1}
    /\ DOMAIN call.nodes["/b.sol"] = {2, 3}
    /\ \A i \in {2, 3} :
          /\ call.nodes["/b.sol"][i].src = Span(0, 1, 1)
          /\ call.nodes["/b.sol"][i].referencedDeclaration = 1
    /\ call.nodeId = 1
    /\ Len(call.result) = 2

\* The output lacks sources, lacks build_infos, has an empty build_infos
\* array, lacks source_id_to_path in its first build info, or has an empty
\* sources object.
LacksAPart(astData) ==
    \/ ~astData.hasSources
    \/ ~astData.hasBuildInfos
    \/ astData.buildInfos = <<>>
    \/ ~Head(astData.buildInfos).hasSourceIdToPath
    \/ astData.sources = EmptySources

\* C22: on an output that lacks a part goto_references returns the empty list.
C22_EmptyOnMalformedAst ==
    (call.fn = "goto_references_on_ast" /\ LacksAPart(call.astData)) => call.result = <<>>

\* goto_references has returned the empty list on an output without
\* build_infos, at the cursor on the declared name, where the complete
\* output has references.
C22_Witness ==
    /\ call.fn = "goto_references_on_ast"
    /\ call.astData = AstData(TRUE, SomeSources, FALSE, <<>>)
    /\ call.fileUri = "file:///a.sol"
    /\ call.position = Pos(0, 5)
    /\ call.result = <<>>
    /\ ReferencesOf(SomeSources, SourceIdToPath, "/a.sol", 1, <<1, 2, 3, 4, 5>>) # <<>>

\* The parts of the span id_to_location reads of a node.
LocationParts(node) ==
    SplitOn(IF node.nameLocation # NoSpan THEN node.nameLocation ELSE node.src, ":", <<>>)

\* The span of the node is three numbers, the third the id of a file of the
\* path index that is on disk, and it ends inside the file.
Resolves(node) ==
    /\ Len(LocationParts(node)) = 3
    /\ ParseUsize(LocationParts(node)[1]) # NotANumber
    /\ ParseUsize(LocationParts(node)[2]) # NotANumber
    /\ LocationParts(node)[3] \in DOMAIN SourceIdToPath
    /\ SourceIdToPath[LocationParts(node)[3]] \in DOMAIN Disk
    /\ ParseUsize(LocationParts(node)[1]) + ParseUsize(LocationParts(node)[2])
          <= Len(Disk[SourceIdToPath[LocationParts(node)[3]]])

\* The target and the nodes adjacent to it, when the target has an entry in
\* the reference graph.
ReferenceSet(nodes, absPath, nodeId) ==
    LET target == TargetOf(nodes, absPath, nodeId)
        graph == AllReferences(nodes)
    IN IF target \in DOMAIN graph THEN (graph[target] \cup {target}) \cap NodeIds(nodes) ELSE {}

\* C23: goto_references returns the location of every node of the reference
\* set whose location resolves, and nothing for a node whose location does
\* not resolve.
C23_UnresolvedOmitted ==
    (call.fn = "goto_references" /\ call.nodeId # NoId) =>
        LET set == ReferenceSet(call.nodes, call.absPath, call.nodeId)
            resolved == {i \in set : Resolves(NodeOf(call.nodes, i))}
        IN /\ \A i \in resolved :
                 IdToLocation(call.nodes, SourceIdToPath, i) \in ElementsOf(call.result)
           /\ \A l \in ElementsOf(call.result) :
                 \E i \in resolved : l = IdToLocation(call.nodes, SourceIdToPath, i)

\* goto_references has answered from the declaration, one use of which is
\* in a file that is gone: the declaration and the other use are returned.
C23_Witness ==
    /\ call.fn = "goto_references"
    /\ call.nodeId = 1
    /\ DOMAIN call.nodes["/b.sol"] = {2, 3}
    /\ call.nodes["/b.sol"][2].src = Span(0, 1, 3)
    /\ call.nodes["/b.sol"][3] =
          [src |-> Span(4, 1, 1), nameLocation |-> NoSpan, referencedDeclaration |-> 1]
    /\ ElementsOf(call.result) =
          {Loc("file:///a.sol", Pos(0, 5), Pos(0, 6)), Loc("file:///b.sol", Pos(0, 4), Pos(0, 5))}

\* --------------------------------------------- the rename planner, called
\* The documents of the project.
ProjectUris == {UriOf(p) : p \in Paths}

\* rename_symbol on the project's AST, a document with its content on disk
\* and a cursor; locations is what goto_references returned to it.
CallRenameSymbol(fileUri, position, newName, order, unreadable) ==
    /\ call = NoCall
    /\ LET source == Disk[PathOf(fileUri)]
           identifier == GetIdentifierAtPosition(source, position)
       IN \E found \in IF identifier = NoIdentifier THEN {NoId}
                       ELSE Found(ProjectAst, fileUri, position) :
             call' = [fn |-> "rename_symbol", fileUri |-> fileUri, position |-> position,
                      newName |-> newName, unreadable |-> unreadable,
                      identifier |-> identifier,
                      locations |-> IF identifier = NoIdentifier THEN <<>>
                                    ELSE GotoReferences(ProjectAst, fileUri, position, found, order),
                      result |-> RenameSymbol(ProjectAst, fileUri, position, source, newName,
                                              found, order, unreadable)]
    /\ UNCHANGED Orchestrator

\* Contents with a member access whose receiver holds the member's name, and
\* with two lines: "ax.x;\n" and "x;\nsx;\n"; and /c.sol, "s.x;\n".
MemberAccessFile == <<"a", "x", ".", "x", ";", "\n">>
PlanSources ==
    {MemberAccessFile, <<"x", ";", "\n", "s", "x", ";", "\n">>, Disk["/c.sol"]}
\* The ends of the ranges looked in.
RangeEnds == {Pos(l, c) : l \in 0..1, c \in 0..5}

\* adjust_range_for_identifier on the range of a location, the content of
\* its file and the identifier; editRange is the range rename_symbol gives
\* the edit: the adjusted range, or the location's when there is none.
CallAdjustRangeForIdentifier(range, source, identifier) ==
    /\ call = NoCall
    /\ LET adjusted == AdjustRangeForIdentifier(range, source, identifier) IN
       call' = [fn |-> "adjust_range_for_identifier", range |-> range, source |-> source,
                identifier |-> identifier, result |-> adjusted,
                editRange |-> IF adjusted # NoRange THEN adjusted ELSE range]
    /\ UNCHANGED Orchestrator

\* rename_symbol on the node table of an AST, a document and a cursor:
\* locations is what goto_references returned on that table.
CallRenameSymbolOnTable(nodes, absPath, position, newName, order) ==
    /\ call = NoCall
    /\ LET identifier == GetIdentifierAtPosition(Disk[absPath], position) IN
       \E nodeId \in OneOf(ByteToId(nodes, absPath, PosToBytes(Disk[absPath], position))) :
          LET locations == IF nodeId = NoId THEN <<>>
                           ELSE ReferencesOf(nodes, SourceIdToPath, absPath, nodeId, order)
          IN call' = [fn |-> "rename_symbol_on_table", nodes |-> nodes, absPath |-> absPath,
                      position |-> position, newName |-> newName, identifier |-> identifier,
                      locations |-> locations,
                      result |-> IF identifier = NoIdentifier \/ locations = <<>> THEN NoPlan
                                 ELSE [some |-> TRUE,
                                       changes |-> GroupEdits(locations, identifier, newName, {})]]
    /\ UNCHANGED Orchestrator

PlanNext ==
    \/ \E source \in PlanSources : \E identifier \in {<<"x">>, <<"a", "x">>} :
          \E start \in RangeEnds : \E end \in RangeEnds :
             CallAdjustRangeForIdentifier([start |-> start, end |-> end], source, identifier)
    \/ \E fileUri \in ProjectUris : \E position \in {Pos(l, c) : l \in 0..2, c \in 0..8} : \E newName \in NewNames :
          \E order \in Orders : \E unreadable \in SUBSET Paths :
             CallRenameSymbol(fileUri, position, newName, order, unreadable)
    \/ \E nodes \in ReferenceTables : \E absPath \in {"/a.sol", "/b.sol"} :
          \E position \in CursorPositions : \E newName \in NewNames : \E order \in Orders :
             CallRenameSymbolOnTable(nodes, absPath, position, newName, order)
    \/ Return

PlanSpec == Init /\ [][PlanNext]_vars

\* The cursor is past the last line or past the end of its line, or the
\* character at the cursor is no letter, digit or underscore, or the run of
\* such characters around the cursor begins with a digit.
NotOnIdentifier(source, position) ==
    LET lines == Lines(source) IN
    \/ position.line >= Len(lines)
    \/ LET line == lines[position.line + 1] IN
       \/ position.character > Len(line)
       \/ /\ position.character < Len(line)
          /\ \/ ~IsWordByte(line[position.character + 1])
             \/ \E s \in 1..(position.character + 1) :
                   /\ \A k \in s..(position.character + 1) : IsWordByte(line[k])
                   /\ s = 1 \/ ~IsWordByte(line[s - 1])
                   /\ line[s] \in Digits

\* C24: rename gives no plan when the cursor is not on an identifier token.
C24_NoPlanOffIdentifier ==
    (call.fn = "rename_symbol" /\ NotOnIdentifier(Disk[PathOf(call.fileUri)], call.position))
        => ~call.result.some

\* The text of a range on one line of a content, none when the range is
\* not on one line or not inside the line.
NoText == <<"\n">>
RawRangeText(source, range) ==
    LET lines == Lines(source) IN
    IF \/ range.start.line # range.end.line
       \/ range.start.line >= Len(lines)
       \/ range.start.character > range.end.character
    THEN NoText
    ELSE IF range.end.character > Len(lines[range.start.line + 1]) THEN NoText
    ELSE SubSeq(lines[range.start.line + 1], range.start.character + 1, range.end.character)

\* C25: the edit's range starts at the first occurrence of the identifier in
\* the text of the location's range and has the identifier's length; it is
\* the location's range when that is not on one line or its text does not
\* hold the identifier.
C25_NarrowsToFirstOccurrence ==
    call.fn = "adjust_range_for_identifier" =>
        LET raw == RawRangeText(call.source, call.range)
            at == IF raw = NoText THEN {} ELSE Occurrences(raw, call.identifier)
        IN IF at = {} THEN call.editRange = call.range
           ELSE \E k \in at :
                   /\ \A j \in at : k <= j
                   /\ call.editRange =
                         [start |-> Pos(call.range.start.line, call.range.start.character + k),
                          end |-> Pos(call.range.start.line,
                                      call.range.start.character + k + Len(call.identifier))]

\* The range of the member access ax.x has been narrowed for x: the edit
\* starts at the first x of the range, the one of the receiver.
C25_Witness ==
    /\ call.fn = "adjust_range_for_identifier"
    /\ call.source = MemberAccessFile
    /\ call.range = [start |-> Pos(0, 0), end |-> Pos(0, 4)]
    /\ call.identifier = <<"x">>
    /\ call.editRange = [start |-> Pos(0, 1), end |-> Pos(0, 2)]

\* The edit is the narrowing of the location: on the location's single line,
\* inside its range, as long as the identifier.
NarrowedFrom(edit, location, identifier) ==
    /\ location.range.start.line = location.range.end.line
    /\ edit.range.start.line = location.range.start.line
    /\ edit.range.end.line = location.range.start.line
    /\ location.range.start.character <= edit.range.start.character
    /\ edit.range.end.character <= location.range.end.character
    /\ edit.range.end.character - edit.range.start.character = Len(identifier)

\* C26: every edit of a rename plan writes the new name, is filed under the
\* URI of a location goto_references returned, and has that location's
\* range or a narrowing of it that is as long as the identifier at the cursor.
C26_EditsOfThePlan ==
    (call.fn = "rename_symbol" /\ call.result.some) =>
        \A u \in DOMAIN call.result.changes : \A k \in DOMAIN call.result.changes[u] :
            LET edit == call.result.changes[u][k] IN
            /\ edit.newText = call.newName
            /\ \E i \in DOMAIN call.locations :
                  /\ call.locations[i].uri = u
                  /\ \/ edit.range = call.locations[i].range
                     \/ NarrowedFrom(edit, call.locations[i], call.identifier)

\* A rename of x from its declaration has planned an edit in /c.sol that is
\* narrowed from the member access s.x to its x.
C26_Witness ==
    /\ call.fn = "rename_symbol"
    /\ call.fileUri = "file:///a.sol"
    /\ call.position = Pos(0, 5)
    /\ call.identifier = <<"x">>
    /\ call.result.some
    /\ "file:///c.sol" \in DOMAIN call.result.changes
    /\ Loc("file:///c.sol", Pos(0, 0), Pos(0, 3)) \in ElementsOf(call.locations)
    /\ call.result.changes["file:///c.sol"] =
          <<[range |-> [start |-> Pos(0, 2), end |-> Pos(0, 3)], newText |-> call.newName]>>

\* The locations of a list that are in the document u and whose file the
\* planner can read.
ReadableAt(locations, u, unreadable) ==
    {i \in DOMAIN locations : locations[i].uri = u /\ PathOf(u) \notin unreadable}

\* C27: a rename plan has, per document, as many edits as goto_references
\* returned locations in it whose file is readable, and no edit for a
\* document without such a location: one edit per location, none for the
\* cursor.
C27_OneEditPerLocation ==
    (call.fn = "rename_symbol" /\ call.result.some) =>
        /\ DOMAIN call.result.changes =
              {u \in ProjectUris : ReadableAt(call.locations, u, call.unreadable) # {}}
        /\ \A u \in DOMAIN call.result.changes :
              Len(call.result.changes[u])
                 = Cardinality(ReadableAt(call.locations, u, call.unreadable))

\* A rename of x from its use in /b.sol, every file readable: the four
\* locations (declaration and three uses) give four edits, two in /a.sol and
\* one in /b.sol, the cursor's document.
C27_Witness ==
    /\ call.fn = "rename_symbol"
    /\ call.fileUri = "file:///b.sol"
    /\ call.position = Pos(0, 0)
    /\ call.unreadable = {}
    /\ Len(call.locations) = 4
    /\ call.result.some
    /\ DOMAIN call.result.changes = ProjectUris
    /\ Len(call.result.changes["file:///a.sol"]) = 2
    /\ Len(call.result.changes["file:///b.sol"]) = 1
    /\ Len(call.result.changes["file:///c.sol"]) = 1

\* C29: with an identifier at the cursor and locations from goto_references,
\* rename_symbol gives a plan whatever files cannot be read; the plan has
\* the edit of every location in a readable file and no edit in a file that
\* cannot be read.
C29_UnreadableLocationSkipped ==
    (call.fn = "rename_symbol" /\ call.identifier # NoIdentifier /\ call.locations # <<>>) =>
        /\ call.result.some
        /\ \A i \in DOMAIN call.locations :
              LET l == call.locations[i] IN
              IF PathOf(l.uri) \in call.unreadable
              THEN l.uri \notin DOMAIN call.result.changes
              ELSE /\ l.uri \in DOMAIN call.result.changes
                   /\ EditOf(l, call.identifier, call.newName)
                         \in ElementsOf(call.result.changes[l.uri])

\* A rename of x from its declaration while /c.sol cannot be read: the plan
\* has the edits of /a.sol and /b.sol, and none for the location in /c.sol.
C29_Witness ==
    /\ call.fn = "rename_symbol"
    /\ call.fileUri = "file:///a.sol"
    /\ call.position = Pos(0, 5)
    /\ call.unreadable = {"/c.sol"}
    /\ Loc("file:///c.sol", Pos(0, 0), Pos(0, 3)) \in ElementsOf(call.locations)
    /\ call.result.some
    /\ DOMAIN call.result.changes = {"file:///a.sol", "file:///b.sol"}

\* The characters s+1..e of the line are a complete token: no letter, digit
\* or underscore right before or right after them.
CompleteToken(line, s, e) ==
    /\ s = 0 \/ ~IsWordByte(line[s])
    /\ e = Len(line) \/ ~IsWordByte(line[e + 1])

\* The range is the span of a reference to the identifier: on one line,
\* from a token's start to a token's end, its text ending with the
\* identifier as a complete token (the name itself, or a member access with
\* the name as the member).
ReferenceSpan(source, range, identifier) ==
    /\ RawRangeText(source, range) # NoText
    /\ LET line == Lines(source)[range.start.line + 1]
           s == range.start.character
           e == range.end.character
       IN /\ e - s >= Len(identifier)
          /\ SubSeq(line, e - Len(identifier) + 1, e) = identifier
          /\ CompleteToken(line, s, e)
          /\ CompleteToken(line, e - Len(identifier), e)

\* C28: the narrowed range of a reference span is a complete token that is
\* the identifier, never a part of a longer identifier or of the receiver.
C28_NarrowedToCompleteToken ==
    (/\ call.fn = "adjust_range_for_identifier"
     /\ ReferenceSpan(call.source, call.range, call.identifier)
     /\ call.result # NoRange)
    => LET line == Lines(call.source)[call.range.start.line + 1] IN
       /\ SubSeq(line, call.result.start.character + 1, call.result.end.character)
             = call.identifier
       /\ CompleteToken(line, call.result.start.character, call.result.end.character)

\* ------------------------------------------- the request handlers, called
\* What can go wrong for a request: the URI is no file path, the document
\* cannot be read, compiler.ast fails, the AST lacks its sources or
\* build_infos, the cursor is past the last line.
Failures ==
    {"none", "invalid_uri", "unreadable_source", "driver_failure", "malformed_ast",
     "out_of_range_position"}

\* A handler's jsonrpc Result: Ok of its answer. No handler has an Err arm.
Ok(response) == [err |-> FALSE, response |-> response]

\* What the part of a handler after the cache may answer. With a malformed
\* AST or a cursor outside the content no node is found at the cursor.
RequestTails(kind, u, position, newName, nothingFound) ==
    IF kind = "rename"
    THEN IF nothingFound
         THEN {LET plan == RenameSymbol(ProjectAst, u, position, Disk[PathOf(u)], newName,
                                        NoId, order, {})
               IN IF plan.some THEN RenameResponse(ClientChanges(plan.changes, u), TRUE)
                  ELSE None : order \in Orders}
         ELSE {run.response : run \in RenameRunsOf(u, position, newName, NoFaults)}
    ELSE IF nothingFound
         THEN {IF kind = "references"
               THEN ReferencesResponse(ProjectAst, u, position, NoId, order)
               ELSE DeclarationResponse(ProjectAst, u, position, NoId) : order \in Orders}
         ELSE AnswersOf(kind, u, position)

\* A handler from its first line to its return: the URI's file path, the
\* read of the document, the AST (from compiler.ast here), the answer.
HandleRequest(u, readOk, astOk, tail) ==
    IF ~ToFilePathOk(u) THEN Ok(None)
    ELSE IF ~readOk THEN Ok(None)
    ELSE IF ~astOk THEN Ok(None)
    ELSE Ok(tail)

\* One request of a kind, with what goes wrong for it.
CallRequest(kind, failure, fileUri, cursor, newName) ==
    /\ call = NoCall
    /\ LET u == IF failure = "invalid_uri" THEN BadUri ELSE fileUri
           position == IF failure = "out_of_range_position" THEN Pos(7, 0) ELSE cursor
           tails == IF failure \in {"invalid_uri", "unreadable_source", "driver_failure"}
                    THEN {None}
                    ELSE RequestTails(kind, u, position, newName,
                                      failure \in {"malformed_ast", "out_of_range_position"})
       IN \E tail \in tails :
             call' = [fn |-> "request", kind |-> kind, failure |-> failure, uri |-> u,
                      position |-> position,
                      result |-> HandleRequest(u, failure # "unreadable_source",
                                               failure # "driver_failure", tail)]
    /\ UNCHANGED Orchestrator

RequestNext ==
    \/ \E kind \in Queries : \E failure \in Failures : \E fileUri \in FileUris :
          \E cursor \in Positions : \E newName \in NewNames :
             CallRequest(kind, failure, fileUri, cursor, newName)
    \/ Return

RequestSpec == Init /\ [][RequestNext]_vars

\* C30: a request for which something goes wrong is answered without an
\* error and with an absent or empty result.
C30_FailuresAnswerEmpty ==
    (call.fn = "request" /\ call.failure # "none") =>
        /\ ~call.result.err
        /\ \/ ~call.result.response.some
           \/ /\ call.result.response.locations = <<>>
              /\ call.result.response.changes = NoChanges

\* A definition or declaration request for which goto_declaration resolves
\* no declaration: the AST is malformed, the cursor is outside the content,
\* or no node (or none with a resolvable declaration) is at the cursor.
ResolvesNoDeclaration ==
    /\ call.fn = "request"
    /\ call.kind \in {"definition", "declaration"}
    /\ call.failure \in {"none", "malformed_ast", "out_of_range_position"}
    /\ \/ call.failure # "none"
       \/ \A found \in Found(ProjectAst, call.uri, call.position) :
             GotoDeclaration(ProjectAst, call.uri, call.position, found) = NoLocation

\* C31: a definition or declaration request that resolves no declaration is
\* answered with a null location, not with a location.
C31_NullLocationOnMiss == ResolvesNoDeclaration => ~call.result.response.some

\* A position that points into a content: at a line the content has, at or
\* before the end of that line.
PointsInto(content, position) ==
    /\ position.line < Len(Lines(content))
    /\ position.character <= Len(Lines(content)[position.line + 1])

\* C32: the position of the byte offset of a position that points into the
\* content is that position.
C32_PositionRoundTrip ==
    (call.fn = "byte_offset" /\ PointsInto(call.content, call.position))
        => call.back = call.position

\* A position at a line the content has, with its character past the end of
\* that line.
PastEndOfLine(content, position) ==
    /\ position.line < Len(Lines(content))
    /\ position.character > Len(Lines(content)[position.line + 1])

\* C33: byte_offset fails for a position whose character lies past the end
\* of its line; it returns no offset of a later line.
C33_PastEndOfLineFails ==
    (call.fn = "byte_offset" /\ PastEndOfLine(call.content, call.position))
        => call.result = ErrOffset

\* The cache m2 is m with an entry inserted under u, the others as they were.
InsertedAt(m, m2, u) ==
    /\ DOMAIN m2 = DOMAIN m \cup {u}
    /\ \A k \in DOMAIN m2 \ {u} : m2[k] = m[k]

\* C34: a step changes the cache only as the insert of a didOpen/didSave or
\* of a query's miss branch under the handler's URI, or as the removal of a
\* didChange's URI; the log-only notifications and the rename's plan and
\* server-side application leave the cache as it was.
C34_CacheFrame ==
    [][/\ cache' # cache =>
             \E t \in Tasks :
                 \/ /\ IsOnChange(t) /\ task[t].pc = "oc_wait_write"
                    /\ InsertedAt(cache, cache', task[t].uri)
                 \/ /\ IsQuery(t) /\ task[t].pc = "q_wait_write"
                    /\ InsertedAt(cache, cache', task[t].uri)
                 \/ /\ task[t].kind = "didChange" /\ task[t].pc = "dc_wait_write"
                    /\ cache' = Remove(cache, task[t].uri)
       /\ \A t \in Tasks :
             (task'[t] # task[t] /\ (task'[t].kind \in LogOnly \/ task[t].pc = "q_compute"))
                 => cache' = cache]_vars

\* A rename has written the file of another document whose AST is cached.
C34_Witness ==
    \E t \in Tasks :
        /\ task[t].kind = "rename"
        /\ task[t].pc = "done"
        /\ \E p \in DOMAIN task[t].wrote : UriOf(p) # task[t].uri /\ UriOf(p) \in DOMAIN cache

\* The lines of a content counted by its newlines: one per newline, and one
\* more for bytes after the last newline.
NumberOfLines(content) ==
    Cardinality({k \in 1..Len(content) : content[k] = "\n"})
        + (IF content # <<>> /\ content[Len(content)] # "\n" THEN 1 ELSE 0)

\* The sum of len(line_i) + 1 over the lines before a line, plus a character.
SumBefore(content, position) ==
    Cardinality({ik \in (1..position.line) \X (0..Len(content)) :
                    ik[2] <= Len(Lines(content)[ik[1]])})
        + position.character

SpanLocation(node) ==
    LET parts == LocationParts(node)
        content == Disk[SourceIdToPath[parts[3]]]
    IN Loc(UriOf(SourceIdToPath[parts[3]]),
           PositionAt(content, ParseUsize(parts[1])),
           PositionAt(content, ParseUsize(parts[1]) + ParseUsize(parts[2])))

\* C36: every location goto_references returns is the span location of a
\* node of the reference set, read from nameLocation when the node has one
\* and from src otherwise; a declaration with a nameLocation is returned as
\* the range of its name.
C36_LocationOfNameSpan ==
    (call.fn = "goto_references" /\ call.nodeId # NoId) =>
        LET set == {i \in ReferenceSet(call.nodes, call.absPath, call.nodeId) :
                       Resolves(NodeOf(call.nodes, i))}
        IN /\ ElementsOf(call.result) = {SpanLocation(NodeOf(call.nodes, i)) : i \in set}
           /\ \A i \in set :
                 NodeOf(call.nodes, i).nameLocation # NoSpan =>
                    LET l == IdToLocation(call.nodes, SourceIdToPath, i)
                    IN /\ l \in ElementsOf(call.result)
                       /\ l.range.start.line = l.range.end.line
                       /\ l.range.end.character - l.range.start.character
                             = ParseUsize(SplitOn(NodeOf(call.nodes, i).nameLocation, ":", <<>>)[2])

\* goto_references has answered from a use of the declaration "uint x",
\* whose src spans six bytes: the declaration is returned as the range of x.
C36_Witness ==
    /\ call.fn = "goto_references"
    /\ call.absPath = "/b.sol"
    /\ call.nodeId # NoId
    /\ 1 \in DOMAIN call.nodes["/a.sol"]
    /\ call.nodes["/a.sol"][1].src = Span(0, 6, 0)
    /\ Loc("file:///a.sol", Pos(0, 5), Pos(0, 6)) \in ElementsOf(call.result)

\* C37: two calls of byte_to_id in a run with the same table content, path
\* and byte offset return the same node id.
C37_SameIdInARun == call.fn = "byte_to_id_twice" => call.again = call.result

\* Two ranges share no character and are not the same range.
Apart(r1, r2) ==
    /\ r1 # r2
    /\ \/ ~PosLess(r2.start, r1.end)
       \/ ~PosLess(r1.start, r2.end)

\* C38: in a rename plan the edits of one URI have ranges that are pairwise
\* distinct and do not overlap.
C38_EditsApart ==
    (call.fn \in {"rename_symbol", "rename_symbol_on_table"} /\ call.result.some) =>
        \A u \in DOMAIN call.result.changes :
            \A i, j \in DOMAIN call.result.changes[u] :
                i # j => Apart(call.result.changes[u][i].range, call.result.changes[u][j].range)

\* C39: a rename that answers None has written no file.
C39_NoneWritesNothing ==
    \A t \in Tasks :
        (task[t].kind = "rename" /\ task[t].pc = "done" /\ ~task[t].response.some)
            => DOMAIN task[t].wrote = {}

\* A didSave without text for a file that cannot be read: the handler of a
\* file URI that has ended without reaching on_change's driver calls.
UnreadableSave(tk) ==
    /\ tk.kind = "didSave"
    /\ tk.pc = "done"
    /\ ToFilePathOk(tk.uri)
    /\ tk.calls = <<>>

\* C40: no step of a didOpen/didSave whose AST call failed, and no step of a
\* didSave that could not read its file, changes the cache; the unreadable
\* save makes no driver call and publishes nothing.
C40_FailedOpenSaveKeepsCache ==
    /\ [](\A t \in Tasks :
            /\ (IsOnChange(t) /\ task[t].pc \in {"oc_publish", "done"} /\ ~task[t].astOk)
                  => ~Occurs(task[t].hist, "store")
            /\ UnreadableSave(task[t])
                  => task[t].pubs = 0 /\ task[t].pending = {} /\ task[t].hist = <<>>)
    /\ [][\A t \in Tasks :
            /\ (task'[t] # task[t] /\ task'[t].kind \in {"didOpen", "didSave"} /\ ~task'[t].astOk)
                  => cache' = cache
            /\ (task[t].pc = "idle" /\ UnreadableSave(task'[t]))
                  => cache' = cache /\ published' = published]_vars

\* The AST call of a didSave has failed while the AST an earlier event
\* cached for the document is still there.
C40_Witness ==
    \E t \in Tasks :
        /\ task[t].kind = "didSave"
        /\ task[t].pc = "done"
        /\ task[t].calls = JoinedCalls
        /\ ~task[t].astOk
        /\ task[t].uri \in DOMAIN cache

====
